---- MODULE Spec2Model ----
(***************************************************************************)
(* Dynamic endpoint executor of backend/api/server.js: route resolution,   *)
(* bearer-token authorization, parameter validation and the execution of   *)
(* a stored procedure and/or a query on the Oracle or the MySQL engine.    *)
(* Every await of the handler and of the functions it calls is one step.   *)
(***************************************************************************)
EXTENDS Integers, Sequences, FiniteSets, TLC

\* dbType, inUse and req are the server; pf is one call of a helper function,
\* its arguments and its result, examined apart from the server
VARIABLES dbType, inUse, req, pf

vars == <<dbType, inUse, req, pf>>

(* ------------------------------ bounds -------------------------------- *)

\* number of @output placeholders written in a procedure body
MaxOut == 2

\* number of characters of a value given to the number validation
MaxNumLen == 4

\* number of segments of a request path
MaxPathLen == 4

\* number of placeholders of a statement given to the extraction
MaxSqlLen == 4

\* number of characters of a string returned as a procedure output
MaxValueLen == 2

\* number of characters and placeholders of a trailing query
MaxQueryLen == 3

\* the requests that are in flight together
Reqs == {"r1", "r2"}

Engines == {"oracle", "mysql"}

Methods == {"GET", "POST"}

(* ------------------------------ values -------------------------------- *)

\* a JavaScript value of a bind source: undefined, or a string of characters
Undef == [d |-> FALSE, s |-> <<>>]

Str(s) == [d |-> TRUE, s |-> s]

Digits == {"0", "1", "2", "3", "4", "5", "6", "7", "8", "9"}

RECURSIVE TrimLeft(_)
TrimLeft(s) == IF s # <<>> /\ Head(s) = " " THEN TrimLeft(Tail(s)) ELSE s

RECURSIVE TrimRight(_)
TrimRight(s) ==
  IF s # <<>> /\ s[Len(s)] = " " THEN TrimRight(SubSeq(s, 1, Len(s) - 1)) ELSE s

\* String.prototype.trim
Trim(s) == TrimRight(TrimLeft(s))

AllDigits(s) == \A i \in 1..Len(s) : s[i] \in Digits

\* /^[+-]?(\d+(\.\d*)?|\.\d+)$/.test(s)
IsNumberLiteral(s) ==
  LET body == IF s # <<>> /\ Head(s) \in {"+", "-"} THEN Tail(s) ELSE s
      dots == {i \in 1..Len(body) : body[i] = "."}
  IN IF dots = {}
       THEN body # <<>> /\ AllDigits(body)
       ELSE /\ Cardinality(dots) = 1
            /\ LET p == CHOOSE i \in dots : TRUE
                   pre == SubSeq(body, 1, p - 1)
                   post == SubSeq(body, p + 1, Len(body))
               IN /\ AllDigits(pre)
                  /\ AllDigits(post)
                  /\ (pre # <<>> \/ post # <<>>)

\* value.toString().split('.')[1]?.length || 0
DecimalPlaces(s) ==
  LET dots == {i \in 1..Len(s) : s[i] = "."}
  IN IF dots = {} THEN 0
     ELSE LET p == CHOOSE i \in dots : \A j \in dots : i <= j
              rest == SubSeq(s, p + 1, Len(s))
              nxt == {i \in 1..Len(rest) : rest[i] = "."}
          IN IF nxt = {} THEN Len(rest)
             ELSE (CHOOSE i \in nxt : \A j \in nxt : i <= j) - 1

DigitSeq == <<"0", "1", "2", "3", "4", "5", "6", "7", "8", "9">>

DigitVal(c) == (CHOOSE i \in 1..Len(DigitSeq) : DigitSeq[i] = c) - 1

RECURSIVE Pow10(_)
Pow10(k) == IF k = 0 THEN 1 ELSE 10 * Pow10(k - 1)

RECURSIVE IntVal(_)
IntVal(s) == IF s = <<>> THEN 0 ELSE 10 * IntVal(SubSeq(s, 1, Len(s) - 1)) + DigitVal(s[Len(s)])

\* parseFloat(s) of a string whose trimmed text passed IsNumberLiteral, as the
\* integer parseFloat(s) * 10^MaxNumLen (no value has more decimals than that)
parseFloat(s) ==
  LET frac(post) == IntVal(post) * Pow10(MaxNumLen - Len(post))
      split(body, p) ==
        IntVal(SubSeq(body, 1, p - 1)) * Pow10(MaxNumLen) + frac(SubSeq(body, p + 1, Len(body)))
      mag(body) ==
        split(body, IF \E i \in 1..Len(body) : body[i] = "."
                      THEN CHOOSE i \in 1..Len(body) : body[i] = "."
                      ELSE Len(body) + 1)
      signed(t) ==
        IF t # <<>> /\ Head(t) = "-" THEN 0 - mag(Tail(t))
        ELSE IF t # <<>> /\ Head(t) = "+" THEN mag(Tail(t))
        ELSE mag(t)
  IN signed(Trim(s))

\* Number.isInteger(parseFloat(s)) for a string that passed IsNumberLiteral
IsIntegral(s) ==
  LET dots == {i \in 1..Len(s) : s[i] = "."}
  IN \/ dots = {}
     \/ LET p == CHOOSE i \in dots : TRUE
        IN \A i \in (p + 1)..Len(s) : s[i] = "0"

(* ----------------------- parameter validation ------------------------- *)

\* outcome of convertAndValidateValue: a thrown Error or a returned value
Reject(reason) == [ok |-> FALSE, reason |-> reason, val |-> Undef, isNull |-> FALSE]

Accept(v) == [ok |-> TRUE, reason |-> "", val |-> v, isNull |-> FALSE]

AcceptNull == [ok |-> TRUE, reason |-> "", val |-> Undef, isNull |-> TRUE]

\* the descriptor used when endpoint.pathParams / queryParams has no entry
\* precision -1, maxLength 0, hasMin FALSE, hasMax FALSE: the constraint is not set
NoConfig == [declared |-> FALSE, type |-> "string", required |-> FALSE,
             precision |-> -1, maxLength |-> 0,
             hasMin |-> FALSE, minimum |-> 0, hasMax |-> FALSE, maximum |-> 0]

\* FALSE when validateNumberConstraints throws; s is the value as it was received
validateNumberConstraints(s, cfg) ==
  LET check(numValue) ==
        IF cfg.hasMin /\ numValue < cfg.minimum * Pow10(MaxNumLen) THEN FALSE
        ELSE IF cfg.hasMax /\ numValue > cfg.maximum * Pow10(MaxNumLen) THEN FALSE
        ELSE IF cfg.precision = -1 THEN TRUE
        ELSE IF cfg.precision = 0 THEN IsIntegral(Trim(s))
        ELSE DecimalPlaces(s) <= cfg.precision
  IN check(parseFloat(s))

validateStringConstraints(s, cfg) ==
  ~(cfg.maxLength # 0 /\ Len(s) > cfg.maxLength)

convertAndValidateValue(value, cfg) ==
  LET convert(stringValue) ==
        IF ~value.d \/ stringValue = <<>>
          THEN IF cfg.declared /\ cfg.required THEN Reject("must be provided") ELSE AcceptNull
          ELSE CASE cfg.type = "number" ->
                      IF ~IsNumberLiteral(stringValue) THEN Reject("Invalid number value")
                      ELSE IF ~validateNumberConstraints(value.s, cfg)
                             THEN Reject("Invalid value")
                             ELSE Accept(Str(stringValue))
                 [] OTHER ->
                      IF ~validateStringConstraints(stringValue, cfg)
                        THEN Reject("Invalid value")
                        ELSE Accept(Str(stringValue))
  IN convert(Trim(value.s))

(* ------------------------------ SQL text ------------------------------ *)

\* SQL text as the sequence of its placeholders: {n}, :n, @n and $n
Brace(n) == [k |-> "brace", n |-> n]

Colon(n) == [k |-> "colon", n |-> n]

At(n) == [k |-> "at", n |-> n]

\* a blank or missing sqlProcedure / sqlQuery
NoSql == [blank |-> TRUE, toks |-> <<>>]

Sql(toks) == [blank |-> FALSE, toks |-> toks]

RECURSIVE Dedupe(_)
\* [...new Set(names)]: first occurrence of every name, in order
Dedupe(s) ==
  IF s = <<>> THEN <<>>
  ELSE LET init == Dedupe(SubSeq(s, 1, Len(s) - 1))
           last == s[Len(s)]
       IN IF \E i \in 1..Len(init) : init[i] = last THEN init ELSE Append(init, last)

RECURSIVE NamesOf(_, _)
\* the names captured by one placeholder regex, left to right
NamesOf(toks, kind) ==
  IF toks = <<>> THEN <<>>
  ELSE IF Head(toks).k = kind
         THEN <<Head(toks).n>> \o NamesOf(Tail(toks), kind)
         ELSE NamesOf(Tail(toks), kind)

SelectNotIn(s, excl) == SelectSeq(s, LAMBDA n : n \notin excl)

Range(s) == {s[i] : i \in 1..Len(s)}

\* $n
Dollar(n) == [k |-> "dollar", n |-> n]

\* sql.match(/\$(\w+)/g)?.[1]: with the g flag the array holds whole matches, so
\* this is the text of the second $name, "$" included; "" stands for undefined
SecondDollarMatch(toks) ==
  LET ds == NamesOf(toks, "dollar")
  IN IF Len(ds) >= 2 THEN "$" \o ds[2] ELSE ""

\* the output names filtered against the path names only
extractParamDetails_outputUnfiltered(sql) ==
  LET pathParams == Dedupe(NamesOf(sql.toks, "brace"))
      queryParams == Dedupe(NamesOf(sql.toks, "colon"))
      outputParams == Dedupe(NamesOf(sql.toks, "at"))
  IN [pathParams |-> pathParams,
      queryParams |-> SelectNotIn(queryParams, Range(pathParams)),
      outputParams |-> SelectNotIn(outputParams, Range(pathParams))]

extractParamDetails(sql) ==
  LET dollarParam == SecondDollarMatch(sql.toks)
      pathParams == Dedupe(NamesOf(sql.toks, "brace"))
      queryParams == SelectNotIn(Dedupe(NamesOf(sql.toks, "colon")), {dollarParam})
      outputParams == Dedupe(NamesOf(sql.toks, "at"))
  IN [pathParams |-> pathParams,
      queryParams |-> SelectNotIn(queryParams, Range(pathParams)),
      outputParams |-> SelectNotIn(outputParams, Range(queryParams) \cup Range(pathParams))]

(* ------------------------- endpoint registry -------------------------- *)

\* appUser is the name validateToken writes into the request
ParamNames == {"id", "st", "appUser"}

OutNames == <<"o1", "o2", "o3", "o4">>

\* the @o1 .. @on placeholders of a procedure body
Outs(n) == [i \in 1..n |-> At(OutNames[i])]

NumberRequired == [NoConfig EXCEPT !.declared = TRUE, !.type = "number",
                                   !.required = TRUE, !.precision = 0]

StringRequired == [NoConfig EXCEPT !.declared = TRUE, !.required = TRUE,
                                   !.maxLength = 2]

\* pathConfigs.find(p => p.name === param), undefined when absent
FindConfig(cfgs, n) == IF n \in DOMAIN cfgs THEN cfgs[n] ELSE NoConfig

Lit(s) == [k |-> "lit", n |-> s]

Api == <<"a", "p", "i">>

NoParams == [n \in {} |-> NoConfig]

\* the content of endpoints.json, in file order
Registry ==
  << [method |-> "GET", url |-> <<Lit(Api), Lit(<<"o">>), Brace("id")>>,
      requireToken |-> FALSE, jsonSchema |-> FALSE,
      sqlProcedure |-> NoSql,
      sqlQuery |-> Sql(<<Brace("id"), Colon("st")>>),
      pathParams |-> [n \in {"id"} |-> NumberRequired],
      queryParams |-> [n \in {"st"} |-> StringRequired]],
     [method |-> "POST", url |-> <<Lit(Api), Lit(<<"p">>)>>,
      requireToken |-> TRUE, jsonSchema |-> TRUE,
      sqlProcedure |-> Sql(<<Colon("id"), At("o1")>>),
      sqlQuery |-> NoSql,
      pathParams |-> NoParams,
      queryParams |-> [n \in {"id"} |-> NumberRequired]],
     [method |-> "POST", url |-> <<Lit(Api), Lit(<<"q">>)>>,
      requireToken |-> FALSE, jsonSchema |-> FALSE,
      sqlProcedure |-> Sql(<<Colon("id")>> \o Outs(MaxOut)),
      sqlQuery |-> Sql(<<At("o1"), Colon("st")>>),
      pathParams |-> NoParams,
      queryParams |-> [n \in {"id", "st"} |->
                         IF n = "id" THEN NumberRequired ELSE StringRequired]],
     [method |-> "GET", url |-> <<Lit(Api), Lit(<<"q">>)>>,
      requireToken |-> FALSE, jsonSchema |-> FALSE,
      sqlProcedure |-> Sql(<<Colon("id"), At("o1")>>),
      sqlQuery |-> Sql(<<At("o1")>>),
      pathParams |-> NoParams,
      queryParams |-> NoParams],
     [method |-> "POST", url |-> <<Lit(Api), Lit(<<"n">>)>>,
      requireToken |-> FALSE, jsonSchema |-> FALSE,
      sqlProcedure |-> NoSql,
      sqlQuery |-> NoSql,
      pathParams |-> NoParams,
      queryParams |-> NoParams],
     [method |-> "GET", url |-> <<Lit(Api), Lit(<<"s">>)>>,
      requireToken |-> TRUE, jsonSchema |-> FALSE,
      sqlProcedure |-> NoSql,
      sqlQuery |-> Sql(<<Colon("st")>>),
      pathParams |-> NoParams,
      queryParams |-> NoParams],
     [method |-> "POST", url |-> <<Lit(Api), Lit(<<"z">>), Brace("id")>>,
      requireToken |-> FALSE, jsonSchema |-> FALSE,
      sqlProcedure |-> Sql(<<Brace("id"), Colon("st")>>),
      sqlQuery |-> NoSql,
      pathParams |-> [n \in {"id"} |-> NumberRequired],
      queryParams |-> [n \in {"st"} |-> StringRequired]] >>

\* the request paths that are tried, as their segments
Paths ==
  { <<Api, <<"o">>>>, <<Api, <<"o">>, <<"7">>>>, <<Api, <<"o">>, <<"x">>>>,
    <<Api, <<"p">>>>, <<Api, <<"q">>>>, <<Api, <<"n">>>>, <<Api, <<"s">>>>,
    <<Api, <<"z">>>>, <<Api, <<"z">>, <<"7">>>>, <<Api, <<"w">>>> }

(* --------------------------- route matching --------------------------- *)

NoGroups == [n \in ParamNames |-> Undef]

\* the values a query string gives a parameter: absent, blank, "7", "xyz"
QueryValues == {Undef, Str(<<" ">>), Str(<<"7">>), Str(<<"x", "y", "z">>)}

\* the values a JSON body gives a parameter: absent, "7", "xyz"
BodyValues == {Undef, Str(<<"7">>), Str(<<"x", "y", "z">>)}

\* the maps that give values to the names in use and leave the others absent
Sources(names, values) ==
  {[n \in ParamNames |-> IF n \in names THEN f[n] ELSE Undef] :
     f \in [names \cap ParamNames -> values]}

\* req.body of a request: a GET carries none
Bodies(method, names) ==
  IF method = "GET" THEN {NoGroups} ELSE Sources(names, BodyValues)

\* { ...a, ...b }: a key of b replaces the same key of a
Spread(a, b) == [n \in ParamNames |-> IF b[n].d THEN b[n] ELSE a[n]]

\* the text the first pass writes for {name}: __CAPTUREGROUP_index__
Placeholder(index) == <<"__CAPTUREGROUP_", DigitSeq[index + 1], "__">>

\* (?<name>[^/]+)
Group(n) == [k |-> "group", n |-> n]

\* position of a name in paramNames
IndexOf(names, n) == CHOOSE i \in 1..Len(names) : names[i] = n

\* a pattern compiled whatever names its groups have
Compiles_always(groupNames) == TRUE

\* new RegExp(text) throws for a group name written twice
Compiles(groupNames) == Len(Dedupe(groupNames)) = Len(groupNames)

\* the regular expression built for a URL pattern: the items between ^ and the
\* optional trailing group, that group's name ("" for none), and whether the
\* text compiles; regex is null when ok is FALSE
convertUrlPatternToRegex(url) ==
  LET \* endName is "" when the pattern does not end with a parameter
      last(endName) == IF endName # "" THEN <<endName>> ELSE <<>>
      regex(ok, items, endName, paramNames) ==
        [ok |-> ok, items |-> items, opt |-> endName,
         paramNames |-> IF ok THEN paramNames ELSE <<>>]
      compile(items, endName, paramNames) ==
        regex(Compiles(NamesOf(items, "group") \o last(endName)), items, endName, paramNames)
      replaceParams(base, endName, paramNames) ==
        compile([i \in 1..Len(base) |->
                   IF base[i].k = "lit" THEN base[i]
                   ELSE IF endName # "" /\ base[i].n = endName
                     THEN Lit(Placeholder(IndexOf(paramNames, base[i].n) - 1))
                   ELSE Group(base[i].n)],
                endName, paramNames)
      collect(base, endName) ==
        replaceParams(base, endName, Dedupe(last(endName) \o NamesOf(base, "brace")))
  IN IF url # <<>> /\ url[Len(url)].k = "brace"
       THEN collect(SubSeq(url, 1, Len(url) - 1), url[Len(url)].n)
       ELSE collect(url, "")

\* the capture of the trailing group is demanded, not optional
RegexMatch_trailingRequired(re, path) ==
  LET n == Len(re.items)
      ok == /\ Len(path) = n + (IF re.opt # "" THEN 1 ELSE 0)
            /\ \A i \in 1..Len(path) : path[i] # <<>>
            /\ \A i \in 1..n : re.items[i].k = "lit" => path[i] = re.items[i].n
  IN IF ok
       THEN [ok |-> TRUE,
             groups |-> [g \in ParamNames |->
                           IF \E i \in 1..n : re.items[i] = Group(g)
                             THEN Str(path[CHOOSE i \in 1..n : re.items[i] = Group(g)])
                           ELSE IF re.opt = g THEN Str(path[n + 1])
                           ELSE Undef]]
       ELSE [ok |-> FALSE, groups |-> NoGroups]

\* path.match(regex) for ^items(?:/(?<opt>[^/]+))?/?$ ; a path is its segments,
\* a last empty segment standing for a trailing slash
RegexMatch(re, path) ==
  LET slash == path # <<>> /\ path[Len(path)] = <<>>
      p == IF slash THEN SubSeq(path, 1, Len(path) - 1) ELSE path
      n == Len(re.items)
      ok == /\ \/ Len(p) = n
               \/ re.opt # "" /\ Len(p) = n + 1
            /\ \A i \in 1..Len(p) : p[i] # <<>>
            /\ \A i \in 1..n : re.items[i].k = "lit" => p[i] = re.items[i].n
  IN IF ok
       THEN [ok |-> TRUE,
             groups |-> [g \in ParamNames |->
                           IF \E i \in 1..n : re.items[i] = Group(g)
                             THEN Str(p[CHOOSE i \in 1..n : re.items[i] = Group(g)])
                           ELSE IF re.opt = g /\ Len(p) = n + 1 THEN Str(p[n + 1])
                           ELSE Undef]]
       ELSE [ok |-> FALSE, groups |-> NoGroups]

\* convertUrlPatternToRegex(url) applied to a path: no match, or the named groups
MatchUrl(url, path) ==
  LET match(re) == IF re.ok THEN RegexMatch(re, path) ELSE [ok |-> FALSE, groups |-> NoGroups]
  IN match(convertUrlPatternToRegex(url))

\* endpoint.url.startsWith('/api/')
StartsWithApi(url) == Len(url) >= 2 /\ url[1] = Lit(Api)

Candidate(endpoints, i, method, path) ==
  /\ endpoints[i].method = method
  /\ StartsWithApi(endpoints[i].url)
  /\ MatchUrl(endpoints[i].url, path).ok

RECURSIVE ScanEndpoints_noBreak(_, _, _, _)
\* the loop without its break: a later match replaces an earlier one
ScanEndpoints_noBreak(endpoints, i, method, path) ==
  IF i > Len(endpoints) THEN 0
  ELSE LET later == ScanEndpoints_noBreak(endpoints, i + 1, method, path)
       IN IF later # 0 THEN later
          ELSE IF Candidate(endpoints, i, method, path) THEN i ELSE 0

RECURSIVE ScanEndpoints(_, _, _, _)
\* the for-loop from entry i on, step by step: continue on a method or prefix
\* mismatch, on a null regex and on a failed match, break on the first match;
\* the index of the matched endpoint, 0 for none
ScanEndpoints(endpoints, i, method, path) ==
  IF i > Len(endpoints) THEN 0
  ELSE IF endpoints[i].method # method THEN ScanEndpoints(endpoints, i + 1, method, path)
  ELSE IF ~StartsWithApi(endpoints[i].url) THEN ScanEndpoints(endpoints, i + 1, method, path)
  ELSE IF MatchUrl(endpoints[i].url, path).ok THEN i
  ELSE ScanEndpoints(endpoints, i + 1, method, path)

\* what the loop leaves in matchedEndpoint, in closed form: index of the match,
\* 0 for none (RouteAgreement checks it against the loop)
FindEndpoint(endpoints, method, path) ==
  LET first(hits) == IF hits = {} THEN 0 ELSE CHOOSE i \in hits : \A j \in hits : i <= j
  IN first({i \in 1..Len(endpoints) : Candidate(endpoints, i, method, path)})

hasProcedure(ep) == ~ep.sqlProcedure.blank

hasQuery(ep) == ~ep.sqlQuery.blank

isProcedureOnly(ep) == hasProcedure(ep) /\ ~hasQuery(ep)

isQueryOnly(ep) == ~hasProcedure(ep) /\ hasQuery(ep)

isProcedureThenQuery(ep) == hasProcedure(ep) /\ hasQuery(ep)

(* ------------------------------ requests ------------------------------ *)

\* a bearer token as the properties validateToken examines
ValidToken == [hdr |-> TRUE, tok |-> TRUE, decodes |-> TRUE, kid |-> "k1",
               sigOK |-> TRUE, expired |-> FALSE, jti |-> "j1"]

NoTok == [ValidToken EXCEPT !.hdr = FALSE]

Tokens ==
  { ValidToken, NoTok,
    [ValidToken EXCEPT !.tok = FALSE],
    [ValidToken EXCEPT !.decodes = FALSE],
    [ValidToken EXCEPT !.kid = ""],
    [ValidToken EXCEPT !.kid = "kx"],
    [ValidToken EXCEPT !.sigOK = FALSE],
    [ValidToken EXCEPT !.expired = TRUE],
    [ValidToken EXCEPT !.jti = ""],
    [ValidToken EXCEPT !.jti = "jx"] }

\* key ids stored in giis_token_key
KeyStore == {"k1"}

\* jwt ids stored in giis_auth_session
Sessions == {"j1"}

\* user_id of the session row of a jwt id
SessionUser == [j \in Sessions |-> Str(<<"u">>)]

\* messages of errors thrown by the database driver
EngineErrors == {"engine error", "Invalid engine error"}

\* error.message.includes('must be provided') || ... || error.message.includes('Invalid')
IsValidationMessage(m) ==
  m \in {"must be provided", "Invalid number value", "Invalid value",
         "Invalid engine error"}

NoResp == [sent |-> 0, status |-> 0, success |-> FALSE, error |-> "", reported |-> {}]

\* res.status(status).json({ success, error | errors })
Send(resp, status, success, error, reported) ==
  [sent |-> resp.sent + 1, status |-> status, success |-> success,
   error |-> error, reported |-> reported]

\* no helper function is examined
NoCall == [fn |-> "none"]

InitReq ==
  [pc |-> "idle", method |-> "GET", ep |-> 0, pathParams |-> NoGroups,
   tok |-> NoTok, authPc |-> "none", authOK |-> FALSE,
   held |-> {}, i |-> 0,
   began |-> FALSE, stepFailed |-> FALSE, commitIssued |-> FALSE,
   rollbackIssued |-> FALSE, procSt |-> "none", procCommitted |-> FALSE,
   outBinds |-> {}, qSt |-> "none", qCommitted |-> FALSE,
   err |-> "", resp |-> NoResp, failing |-> {}, validated |-> FALSE]

Init ==
  /\ dbType \in Engines
  /\ inUse = 0
  /\ req = [r \in Reqs |-> InitReq]
  /\ pf = NoCall

\* one step of request r; the connections checked out follow what r holds
Upd(r, rec) ==
  /\ req' = [req EXCEPT ![r] = rec]
  /\ inUse' = inUse + Cardinality(rec.held) - Cardinality(req[r].held)
  /\ UNCHANGED <<dbType, pf>>

Ep(r) == Registry[req[r].ep]

(* -------------------------- route and token --------------------------- *)

\* the checks of validateToken before it asks for a connection
TokenPrecheck(tok) ==
  IF ~tok.hdr THEN "No authorization header provided"
  ELSE IF ~tok.tok THEN "No token provided"
  ELSE IF ~tok.decodes THEN "Invalid token structure"
  ELSE IF tok.kid = "" THEN "Token missing keyId"
  ELSE ""

\* a catch block that goes on to call next() after its 401
Unauthorized_thenNext(rec, message) ==
  [rec EXCEPT !.resp = Send(rec.resp, 401, FALSE, message, {}), !.pc = "validate"]

\* the catch block of validateToken
Unauthorized(rec, message) ==
  [rec EXCEPT !.resp = Send(rec.resp, 401, FALSE, message, {})]

\* the handler up to its wait on validateToken
Receive(r) ==
  /\ req[r].pc = "idle"
  /\ \E method \in Methods, path \in Paths :
       LET matched(m, ep) ==
             IF ~ep.requireToken
               THEN Upd(r, [m EXCEPT !.pc = "validate"])
               ELSE \E tok \in Tokens :
                      IF TokenPrecheck(tok) # ""
                        THEN Upd(r, [Unauthorized(m, TokenPrecheck(tok))
                                       EXCEPT !.pc = "await_auth", !.authPc = "end"])
                        ELSE Upd(r, [m EXCEPT !.pc = "await_auth", !.authPc = "conn",
                                              !.tok = tok])
           handle(e, got) ==
             IF e = 0
               THEN Upd(r, [got EXCEPT !.pc = "done",
                                       !.resp = Send(got.resp, 404, FALSE, "Endpoint not found", {})])
               ELSE matched([got EXCEPT !.pathParams = MatchUrl(Registry[e].url, path).groups],
                            Registry[e])
           route(e) == handle(e, [req[r] EXCEPT !.method = method, !.ep = e])
       IN route(FindEndpoint(Registry, method, path))

\* connection = await getConnection() in validateToken
AuthGetConnection(r) ==
  /\ req[r].authPc = "conn"
  /\ \/ Upd(r, [req[r] EXCEPT !.authPc = "key", !.held = @ \cup {"validateToken"}])
     \/ \E e \in EngineErrors :
          Upd(r, [Unauthorized(req[r], e) EXCEPT !.authPc = "end"])

\* keyResult.rows[0][0]: Oracle rows are arrays, mysql2 rows are objects keyed by column
KeyCell(engine, kid) == engine = "oracle" /\ kid \in KeyStore

\* a verification that ignores the exp claim
VerifyToken_ignoreExpiry(tok) ==
  IF ~tok.sigOK THEN "Invalid token"
  ELSE IF tok.jti = "" THEN "Invalid token"
  ELSE ""

\* jwt.verify(token, secretKey) and the jti check: "" when they pass
VerifyToken(tok) ==
  IF ~tok.sigOK THEN "Invalid token"
  ELSE IF tok.expired THEN "Token has expired"
  ELSE IF tok.jti = "" THEN "Invalid token"
  ELSE ""

\* the key lookup, the verification of the token and the jti check
AuthKeyLookup(r) ==
  /\ req[r].authPc = "key"
  /\ \/ \E e \in EngineErrors :
          Upd(r, [Unauthorized(req[r], e) EXCEPT !.authPc = "release"])
     \/ IF ~KeyCell(dbType, req[r].tok.kid)
          THEN Upd(r, [Unauthorized(req[r], "Invalid token") EXCEPT !.authPc = "release"])
        ELSE IF VerifyToken(req[r].tok) # ""
          THEN Upd(r, [Unauthorized(req[r], VerifyToken(req[r].tok))
                         EXCEPT !.authPc = "release"])
        ELSE Upd(r, [req[r] EXCEPT !.authPc = "session"])

\* userResult.rows[0]
SessionRow(jti) == jti \in Sessions

\* the session lookup, the injection of appUser and next()
AuthSessionLookup(r) ==
  /\ req[r].authPc = "session"
  /\ \/ \E e \in EngineErrors :
          Upd(r, [Unauthorized(req[r], e) EXCEPT !.authPc = "release"])
     \/ IF ~SessionRow(req[r].tok.jti)
          THEN Upd(r, [Unauthorized(req[r], "Invalid token") EXCEPT !.authPc = "release"])
          ELSE Upd(r, [req[r] EXCEPT !.authPc = "release", !.authOK = TRUE,
                                     !.pc = "validate"])

\* executeQuery written without its finally block
ReleaseConn_exceptQuery(h, owner) == IF owner = "executeQuery" THEN h ELSE h \ {owner}

\* connection.close() / connection.release() of the function that owns the connection
ReleaseConn(h, owner) == h \ {owner}

\* the finally block of validateToken
AuthRelease(r) ==
  /\ req[r].authPc = "release"
  /\ Upd(r, [req[r] EXCEPT !.authPc = "end", !.held = ReleaseConn(@, "validateToken")])

(* ----------------------------- validation ----------------------------- *)

\* a path placeholder of the procedure whose value is undefined and not required
Unbound == [ok |-> TRUE, reason |-> "", val |-> Undef, isNull |-> FALSE]

\* the forEach over procParamDetails.pathParams, then over .queryParams
ProcChecks(ep, src) ==
  LET params(d) ==
        [i \in 1..Len(d.pathParams) |-> [in |-> "path", n |-> d.pathParams[i]]]
          \o [i \in 1..Len(d.queryParams) |-> [in |-> "query", n |-> d.queryParams[i]]]
      check(in, n, cfg) ==
        [id |-> <<"procedure", in, n>>,
         res |-> IF in = "path" /\ ~src[n].d
                   THEN IF cfg.required THEN Reject("must be provided") ELSE Unbound
                   ELSE convertAndValidateValue(src[n], cfg)]
      checks(ps) ==
        [i \in 1..Len(ps) |->
           check(ps[i].in, ps[i].n,
                 FindConfig(IF ps[i].in = "path" THEN ep.pathParams ELSE ep.queryParams, ps[i].n))]
  IN checks(params(extractParamDetails(ep.sqlProcedure)))

\* the forEach over queryParamDetails.pathParams, then over .queryParams
QueryChecks(ep, src) ==
  LET params(d) ==
        [i \in 1..Len(d.pathParams) |-> [in |-> "path", n |-> d.pathParams[i]]]
          \o [i \in 1..Len(d.queryParams) |-> [in |-> "query", n |-> d.queryParams[i]]]
      checks(ps) ==
        [i \in 1..Len(ps) |->
           [id |-> <<"query", ps[i].in, ps[i].n>>,
            res |-> convertAndValidateValue(
                      src[ps[i].n],
                      FindConfig(IF ps[i].in = "path" THEN ep.pathParams ELSE ep.queryParams,
                                 ps[i].n))]]
  IN checks(params(extractParamDetails(ep.sqlQuery)))

\* the bind source of the procedure's parameters
procBindSource(method, pathParams, query, body) ==
  IF method = "GET" THEN Spread(pathParams, query)
  ELSE Spread(Spread(pathParams, query), body)

\* the bind source of the query's parameters
queryBindSource(method, pathParams, query, body) ==
  IF method = "GET" THEN Spread(pathParams, query) ELSE Spread(pathParams, body)

\* the user id written over the query of every method, the body never touched
InjectAppUser_intoQuery(method, query, body, userId) ==
  [query |-> [query EXCEPT !["appUser"] = userId], body |-> body]

\* validateToken: req.query.appUser = userId for a GET, req.body.appUser otherwise
InjectAppUser(method, query, body, userId) ==
  IF method = "GET"
    THEN [query |-> [query EXCEPT !["appUser"] = userId], body |-> body]
    ELSE [query |-> query, body |-> [body EXCEPT !["appUser"] = userId]]

\* req.query and req.body as the handler reads them after validateToken
Authorized(ep, method, query, body, userId) ==
  IF ep.requireToken THEN InjectAppUser(method, query, body, userId)
  ELSE [query |-> query, body |-> body]

\* every parameter check of the request, in the order the handler runs them
ValidationChecks(ep, method, pathParams, query, body) ==
  (IF hasProcedure(ep)
     THEN ProcChecks(ep, procBindSource(method, pathParams, query, body)) ELSE <<>>)
  \o (IF hasQuery(ep)
        THEN QueryChecks(ep, queryBindSource(method, pathParams, query, body)) ELSE <<>>)

Failing(checks) == {checks[i].id : i \in {j \in 1..Len(checks) : ~checks[j].res.ok}}

\* every failure collected before the response is built
Reported_all(checks) == Failing(checks)

\* the parameters of the trailing query checked only when the query is prepared
Reported_procedureOnly(checks) ==
  LET bad == {j \in 1..Len(checks) : ~checks[j].res.ok /\ checks[j].id[1] # "query"}
  IN IF bad = {} THEN {}
     ELSE {checks[CHOOSE i \in bad : \A j \in bad : i <= j].id}

\* the parameters whose failure reaches the response: the first throw ends the handler
Reported(checks) ==
  LET bad == {j \in 1..Len(checks) : ~checks[j].res.ok}
  IN IF bad = {} THEN {}
     ELSE {checks[CHOOSE i \in bad : \A j \in bad : i <= j].id}

ReasonOf(checks, id) ==
  checks[CHOOSE i \in 1..Len(checks) : checks[i].id = id].res.reason

\* the handler's catch block: status from the words of the message
CatchStatus(message) == IF IsValidationMessage(message) THEN 400 ELSE 500

HandlerCatch(rec, message, reported) ==
  [rec EXCEPT !.pc = "done",
              !.resp = Send(rec.resp, CatchStatus(message), FALSE, message, reported)]

\* where the handler goes once every parameter is validated
AfterValidation(ep) ==
  IF hasProcedure(ep) THEN "proc_conn"
  ELSE IF hasQuery(ep) THEN "q_conn"
  ELSE "respond"

\* res.json({ success: true, data: queryResult?.rows || [] })
Succeed(rec) ==
  [rec EXCEPT !.pc = "done", !.resp = Send(rec.resp, 200, TRUE, "", {})]

\* the parameter names the handler looks up in a bind source
NamesRead(ep) ==
  LET names(d) == Range(d.pathParams) \cup Range(d.queryParams)
  IN names(extractParamDetails(ep.sqlProcedure)) \cup names(extractParamDetails(ep.sqlQuery))

\* payload validation and the validation of procedure and query parameters
Validate(r) ==
  /\ req[r].pc = "validate"
  /\ LET userId == IF req[r].tok.jti \in Sessions THEN SessionUser[req[r].tok.jti] ELSE Undef
         respond(ep, schemaErrors, checks, rep, rec) ==
           IF hasProcedure(ep) /\ ep.jsonSchema /\ schemaErrors
             THEN Upd(r, [rec EXCEPT !.pc = "done", !.failing = @ \cup {<<"payload", "body", "">>},
                            !.resp = Send(rec.resp, 400, FALSE, "payload", {<<"payload", "body", "">>})])
           ELSE IF rep # {}
             THEN Upd(r, HandlerCatch(rec, ReasonOf(checks, CHOOSE id \in rep : TRUE), rep))
           ELSE IF AfterValidation(ep) = "respond"
             THEN Upd(r, Succeed([rec EXCEPT !.validated = TRUE]))
           ELSE Upd(r, [rec EXCEPT !.validated = TRUE, !.pc = AfterValidation(ep)])
         decide(ep, schemaErrors, checks) ==
           respond(ep, schemaErrors, checks, Reported(checks),
                   [req[r] EXCEPT !.failing = Failing(checks)])
         validate(ep, schemaErrors, in) ==
           decide(ep, schemaErrors,
                  ValidationChecks(ep, req[r].method, req[r].pathParams, in.query, in.body))
         receive(ep, names) ==
           \E query \in Sources(names, QueryValues),
              body \in Bodies(req[r].method, names),
              schemaErrors \in (IF ep.jsonSchema THEN BOOLEAN ELSE {FALSE}) :
             validate(ep, schemaErrors, Authorized(ep, req[r].method, query, body, userId))
     IN receive(Ep(r), NamesRead(Ep(r)))

(* ------------------------- executeProcedure --------------------------- *)

\* the names pushed by the /@(\w+)/g loop over originalProcedureBody (MySQL)
MysqlOutputParams(sql) == NamesOf(sql.toks, "at")

\* options.autoCommit passed to executeProcedure
ProcAutoCommit(method) == method # "GET"

\* connection = await getConnection() in executeProcedure
ProcGetConnection(r) ==
  /\ req[r].pc = "proc_conn"
  /\ \/ Upd(r, [req[r] EXCEPT !.held = @ \cup {"executeProcedure"},
                              !.pc = IF dbType = "oracle" THEN "proc_exec" ELSE "proc_begin"])
     \/ \E e \in EngineErrors : Upd(r, HandlerCatch(req[r], e, {}))

\* await connection.beginTransaction() (MySQL)
ProcBegin(r) ==
  /\ req[r].pc = "proc_begin"
  /\ \/ Upd(r, [req[r] EXCEPT !.began = TRUE, !.i = 1,
                              !.pc = IF MysqlOutputParams(Ep(r).sqlProcedure) # <<>>
                                       THEN "proc_set" ELSE "proc_exec"])
     \/ \E e \in EngineErrors : Upd(r, [req[r] EXCEPT !.err = e, !.pc = "proc_rollback"])

\* await connection.execute(`SET @${paramName} = NULL`) for one output (MySQL)
ProcSetNull(r) ==
  /\ req[r].pc = "proc_set"
  /\ \/ Upd(r, IF req[r].i < Len(MysqlOutputParams(Ep(r).sqlProcedure))
                 THEN [req[r] EXCEPT !.i = @ + 1]
                 ELSE [req[r] EXCEPT !.i = 1, !.pc = "proc_exec"])
     \/ \E e \in EngineErrors :
          Upd(r, [req[r] EXCEPT !.stepFailed = TRUE, !.err = e, !.pc = "proc_rollback"])

\* connection.execute of the procedure body: Oracle with options, MySQL in the transaction
ProcExecute(r) ==
  /\ req[r].pc = "proc_exec"
  /\ IF dbType = "oracle"
       THEN \/ Upd(r, [req[r] EXCEPT
                         !.procSt = "ok",
                         !.procCommitted = ProcAutoCommit(req[r].method),
                         !.outBinds = Range(extractParamDetails(Ep(r).sqlProcedure).outputParams),
                         !.pc = "proc_release"])
            \/ \E e \in EngineErrors :
                 Upd(r, [req[r] EXCEPT !.procSt = "failed", !.err = e, !.pc = "proc_release"])
       ELSE \/ Upd(r, [req[r] EXCEPT
                         !.procSt = "ok", !.i = 1,
                         !.pc = IF MysqlOutputParams(Ep(r).sqlProcedure) # <<>>
                                  THEN "proc_fetch" ELSE "proc_commit"])
            \/ \E e \in EngineErrors :
                 Upd(r, [req[r] EXCEPT !.procSt = "failed", !.stepFailed = TRUE,
                                       !.err = e, !.pc = "proc_rollback"])

\* what the catch around SELECT @name does with a failed recovery: it only logs it
FetchFailure(rec, e) == [rec EXCEPT !.stepFailed = TRUE]

\* await connection.query(`SELECT @${paramName} as value`) for one output (MySQL)
ProcFetchOut(r) ==
  /\ req[r].pc = "proc_fetch"
  /\ LET names == MysqlOutputParams(Ep(r).sqlProcedure)
         step(rec) == IF rec.pc # "proc_fetch" THEN rec
                      ELSE IF rec.i < Len(names) THEN [rec EXCEPT !.i = @ + 1]
                      ELSE [rec EXCEPT !.i = 1, !.pc = "proc_commit"]
     IN \/ Upd(r, step([req[r] EXCEPT !.outBinds = @ \cup {names[req[r].i]}]))
        \/ \E e \in EngineErrors : Upd(r, step(FetchFailure(req[r], e)))

\* await connection.commit() (MySQL): the options of the call are not consulted
ProcCommit(r) ==
  /\ req[r].pc = "proc_commit"
  /\ \/ Upd(r, [req[r] EXCEPT !.commitIssued = TRUE, !.procCommitted = TRUE,
                              !.pc = "proc_release"])
     \/ \E e \in EngineErrors :
          Upd(r, [req[r] EXCEPT !.commitIssued = TRUE, !.err = e, !.pc = "proc_rollback"])

\* await connection.rollback(); throw error (MySQL)
ProcRollback(r) ==
  /\ req[r].pc = "proc_rollback"
  /\ \/ Upd(r, [req[r] EXCEPT !.rollbackIssued = TRUE, !.pc = "proc_release"])
     \/ \E e \in EngineErrors :
          Upd(r, [req[r] EXCEPT !.rollbackIssued = TRUE, !.err = e, !.pc = "proc_release"])

\* if (isQueryOnly || (isProcedureThenQuery && procedureResult))
ProceedsToQuery(ep) == hasQuery(ep)

\* a handler that goes on to the query whatever executeProcedure did
AfterProcedure_ignoreError(rec, ep) ==
  IF ProceedsToQuery(ep) THEN [rec EXCEPT !.pc = "q_conn"]
  ELSE IF rec.err # "" THEN HandlerCatch(rec, rec.err, {})
  ELSE Succeed(rec)

\* the handler after await executeProcedure(...): its catch when the call threw,
\* the query when there is one, the response otherwise
AfterProcedure(rec, ep) ==
  IF rec.err # "" THEN HandlerCatch(rec, rec.err, {})
  ELSE IF ProceedsToQuery(ep) THEN [rec EXCEPT !.pc = "q_conn"]
  ELSE Succeed(rec)

\* the finally block of executeProcedure, then the handler's continuation or catch
ProcRelease(r) ==
  /\ req[r].pc = "proc_release"
  /\ Upd(r, AfterProcedure([req[r] EXCEPT !.held = ReleaseConn(@, "executeProcedure")], Ep(r)))

(* ------------------------------- query -------------------------------- *)

\* whether a successfully executed query is committed: Oracle by the autoCommit
\* option of executeQuery, MySQL by the session's autocommit on a pool connection
QueryCommits(engine, method, ep) ==
  IF engine = "oracle" THEN method # "GET" /\ isQueryOnly(ep) ELSE TRUE

QueryOwner(engine) == IF engine = "oracle" THEN "executeQuery" ELSE "handler"

\* getConnection() of executeQuery (Oracle) or of the handler itself (MySQL)
QueryGetConnection(r) ==
  /\ req[r].pc = "q_conn"
  /\ \/ Upd(r, [req[r] EXCEPT !.held = @ \cup {QueryOwner(dbType)},
                              !.qSt = "started", !.pc = "q_exec"])
     \/ \E e \in EngineErrors : Upd(r, HandlerCatch([req[r] EXCEPT !.qSt = "failed"], e, {}))

\* connection.execute of the query; on MySQL the response and the handler's finally follow
QueryExecute(r) ==
  /\ req[r].pc = "q_exec"
  /\ IF dbType = "oracle"
       THEN \/ Upd(r, [req[r] EXCEPT !.qSt = "ok",
                                     !.qCommitted = QueryCommits(dbType, req[r].method, Ep(r)),
                                     !.pc = "q_release"])
            \/ \E e \in EngineErrors :
                 Upd(r, [req[r] EXCEPT !.qSt = "failed", !.err = e, !.pc = "q_release"])
       ELSE \/ Upd(r, Succeed([req[r] EXCEPT
                                 !.qSt = "ok",
                                 !.qCommitted = QueryCommits(dbType, req[r].method, Ep(r)),
                                 !.held = ReleaseConn(@, "handler")]))
            \/ \E e \in EngineErrors :
                 Upd(r, HandlerCatch([req[r] EXCEPT !.qSt = "failed",
                                                    !.held = ReleaseConn(@, "handler")], e, {}))

\* the finally block of executeQuery, then the handler's response or catch (Oracle)
QueryRelease(r) ==
  /\ req[r].pc = "q_release"
  /\ LET rec == [req[r] EXCEPT !.held = ReleaseConn(@, "executeQuery")]
     IN IF rec.err # "" THEN Upd(r, HandlerCatch(rec, rec.err, {}))
        ELSE Upd(r, Succeed(rec))

(* --------------------------- specification ---------------------------- *)

Next ==
  \E r \in Reqs :
    \/ Receive(r)
    \/ AuthGetConnection(r)
    \/ AuthKeyLookup(r)
    \/ AuthSessionLookup(r)
    \/ AuthRelease(r)
    \/ Validate(r)
    \/ ProcGetConnection(r)
    \/ ProcBegin(r)
    \/ ProcSetNull(r)
    \/ ProcExecute(r)
    \/ ProcFetchOut(r)
    \/ ProcCommit(r)
    \/ ProcRollback(r)
    \/ ProcRelease(r)
    \/ QueryGetConnection(r)
    \/ QueryExecute(r)
    \/ QueryRelease(r)

Spec == Init /\ [][Next]_vars

TypeOK ==
  /\ dbType \in Engines
  /\ \A r \in Reqs : req[r].ep \in 0..Len(Registry) /\ req[r].resp.sent \in 0..2

(* ------------------------------ properties ---------------------------- *)

ProcPcs == {"proc_begin", "proc_set", "proc_exec", "proc_fetch", "proc_commit",
            "proc_rollback", "proc_release"}

QueryPcs == {"q_exec", "q_release"}

\* the handler has sent its response and none of its functions is still running
Finished(r) ==
  /\ req[r].resp.sent > 0
  /\ req[r].pc \in {"done", "await_auth"}
  /\ req[r].authPc \in {"none", "end"}

\* a statement of the endpoint has been handed to the engine, or is about to be
Executing(r) ==
  \/ req[r].pc \in {"proc_conn", "q_conn"} \cup ProcPcs \cup QueryPcs
  \/ req[r].began
  \/ req[r].procSt # "none"
  \/ req[r].qSt # "none"

\* C1: a connection is held only while the function that acquired it is running,
\* and once all requests have finished no connection is checked out
C1_ConnectionsReleased ==
  /\ \A r \in Reqs :
       /\ "validateToken" \in req[r].held => req[r].authPc \in {"key", "session", "release"}
       /\ "executeProcedure" \in req[r].held => req[r].pc \in ProcPcs
       /\ "executeQuery" \in req[r].held => req[r].pc \in QueryPcs
       /\ "handler" \in req[r].held => req[r].pc = "q_exec"
       /\ Finished(r) => req[r].held = {}
  /\ (\A r \in Reqs : Finished(r)) => inUse = 0

\* two interleaved requests have finished, one after a failed procedure and one
\* after a failed query, and one of them was authorized over its own connection
C1_Witness ==
  \E r1, r2 \in Reqs :
    /\ r1 # r2
    /\ Finished(r1) /\ Finished(r2)
    /\ req[r1].procSt = "failed" /\ req[r1].authOK
    /\ req[r2].qSt = "failed" /\ req[r2].err # ""

TokenGood(tok) ==
  /\ tok.hdr /\ tok.tok /\ tok.decodes
  /\ tok.kid \in KeyStore
  /\ tok.sigOK /\ ~tok.expired
  /\ tok.jti \in Sessions

\* C2: with requireToken a statement runs only after every check of the token
\* passed, and a request whose authorization did not pass ends with 401 and
\* success:false without any statement
C2_NoBypass ==
  \A r \in Reqs :
    (req[r].ep # 0 /\ Ep(r).requireToken) =>
      /\ Executing(r) => (TokenGood(req[r].tok) /\ req[r].authOK)
      /\ req[r].pc = "validate" => TokenGood(req[r].tok)
      /\ (req[r].authPc = "end" /\ ~req[r].authOK) =>
           /\ req[r].resp.sent = 1 /\ req[r].resp.status = 401 /\ ~req[r].resp.success
           /\ ~Executing(r)
      /\ (req[r].authPc = "end" /\ ~TokenGood(req[r].tok)) => ~req[r].authOK

\* one request ran its procedure after a full authorization while another one,
\* with an expired token, was answered 401
C2_Witness ==
  \E r1, r2 \in Reqs :
    /\ req[r1].ep # 0 /\ Ep(r1).requireToken /\ req[r1].procSt = "ok"
    /\ req[r2].ep # 0 /\ Ep(r2).requireToken /\ req[r2].tok.expired
    /\ req[r2].authPc = "end" /\ req[r2].resp.status = 401

\* C3: on MySQL the reset, the statement and the recovery of the outputs run in
\* one transaction, commit is issued only when none of these steps failed, and a
\* failed step ends in rollback, no commit and an error for the caller
C3_CommitOnlyIfEveryStep ==
  \A r \in Reqs :
    dbType = "mysql" =>
      /\ req[r].pc \in {"proc_set", "proc_fetch"} => req[r].began
      /\ req[r].commitIssued => ~req[r].stepFailed
      /\ (req[r].stepFailed /\ req[r].pc \notin ProcPcs \ {"proc_release"}) =>
           /\ req[r].rollbackIssued
           /\ req[r].err # ""

\* C4: a matched endpoint with neither a procedure nor a query is answered with
\* success:false
C4_NeitherIsError ==
  \A r \in Reqs :
    (req[r].ep # 0 /\ ~hasProcedure(Ep(r)) /\ ~hasQuery(Ep(r)) /\ req[r].resp.sent > 0) =>
      ~req[r].resp.success

\* C5: a statement runs only after the route matched, the authorization (when
\* required) passed and every procedure and query parameter validated; a payload
\* or parameter failure, also of a trailing-query parameter, leaves both the
\* procedure and the query unexecuted; the response comes after the execution
C5_ValidateBeforeExecute ==
  \A r \in Reqs :
    /\ req[r].validated => (req[r].ep # 0 /\ (Ep(r).requireToken => req[r].authOK))
    /\ Executing(r) => (req[r].validated /\ req[r].failing = {})
    /\ req[r].failing # {} =>
         /\ ~Executing(r)
         /\ req[r].pc = "done" /\ ~req[r].resp.success
    /\ req[r].resp.success => req[r].validated
    /\ req[r].pc \in {"validate", "proc_conn", "q_conn"} \cup ProcPcs \cup QueryPcs =>
         req[r].resp.sent = 0

\* a procedureThenQuery request whose only failing parameter belongs to the
\* trailing query has ended without running its procedure
C5_Witness ==
  \E r \in Reqs :
    /\ req[r].ep # 0 /\ isProcedureThenQuery(Ep(r))
    /\ req[r].pc = "done"
    /\ req[r].failing # {}
    /\ \A f \in req[r].failing : f[1] = "query"
    /\ req[r].procSt = "none"

\* the order in which the handler reaches the checks of a request
Rank(id) ==
  CASE id[1] = "payload" -> 0
    [] id[1] = "procedure" /\ id[2] = "path" -> 1
    [] id[1] = "procedure" /\ id[2] = "query" -> 2
    [] id[1] = "query" /\ id[2] = "path" -> 3
    [] OTHER -> 4

C7_ProcedureBeforeQuery ==
  \A r \in Reqs :
    (req[r].ep # 0 /\ isProcedureThenQuery(Ep(r))) =>
      /\ (req[r].pc \in {"q_conn"} \cup QueryPcs \/ req[r].qSt # "none") =>
           /\ req[r].procSt = "ok"
           /\ ~req[r].rollbackIssued
           /\ "executeProcedure" \notin req[r].held
           /\ req[r].pc \notin {"proc_conn"} \cup ProcPcs
      /\ (req[r].procSt = "failed" \/ req[r].rollbackIssued) =>
           /\ req[r].qSt = "none"
           /\ req[r].pc \notin {"q_conn"} \cup QueryPcs
           /\ req[r].resp.sent > 0 => ~req[r].resp.success

\* one procedureThenQuery request ran its query after its procedure, another one
\* ended after its procedure failed
C7_Witness ==
  \E r1, r2 \in Reqs :
    /\ req[r1].ep # 0 /\ isProcedureThenQuery(Ep(r1))
    /\ req[r1].procSt = "ok" /\ req[r1].qSt = "ok"
    /\ req[r2].ep # 0 /\ isProcedureThenQuery(Ep(r2))
    /\ req[r2].procSt = "failed" /\ req[r2].pc = "done"

\* the @names of the trailing query that the procedure declares as outputs
QueryOutputRefs(ep) ==
  Range(NamesOf(ep.sqlQuery.toks, "at")) \cap Range(NamesOf(ep.sqlProcedure.toks, "at"))

\* C8: success:true is sent only if every statement of the shape completed without
\* error, the recovery of every output used by the trailing query included
C8_SuccessMeansComplete ==
  \A r \in Reqs :
    (req[r].ep # 0 /\ req[r].resp.success) =>
      /\ hasProcedure(Ep(r)) => req[r].procSt = "ok"
      /\ hasQuery(Ep(r)) => req[r].qSt = "ok"
      /\ ~req[r].stepFailed
      /\ hasQuery(Ep(r)) => QueryOutputRefs(Ep(r)) \subseteq req[r].outBinds

\* C9: the procedure of a GET request is never committed
C9_GetProcedureNotCommitted ==
  \A r \in Reqs :
    (req[r].ep # 0 /\ req[r].method = "GET" /\ hasProcedure(Ep(r))) =>
      ~req[r].procCommitted

\* C10: every statement a non-GET request executed successfully is committed,
\* the procedure and the trailing query alike
C10_NonGetCommitsEachStatement ==
  \A r \in Reqs :
    (req[r].ep # 0 /\ req[r].method # "GET" /\ req[r].resp.success) =>
      /\ req[r].procSt = "ok" => req[r].procCommitted
      /\ req[r].qSt = "ok" => req[r].qCommitted

(* ---------------------- number validation alone ----------------------- *)

\* the server at rest while a helper function is examined
Idle == dbType = "oracle" /\ inUse = 0 /\ req = [r \in Reqs |-> InitReq]

\* every text of at most n characters
Texts(chars, n) == UNION {[1..k -> chars] : k \in 0..n}

NumberChars == {"1", "5", ".", " ", "-"}

\* descriptors of a number parameter: precision unset, 0, 1 or 2, a minimum of 1
\* and a maximum of 11 set or not
NumberConfigs ==
  {[NoConfig EXCEPT !.declared = TRUE, !.type = "number", !.precision = p,
                    !.hasMin = a, !.minimum = 1, !.hasMax = b, !.maximum = 11] :
     p \in -1..2, a \in BOOLEAN, b \in BOOLEAN}

InitNumber ==
  /\ Idle
  /\ pf \in {[fn |-> "convertAndValidateValue", value |-> Str(t), cfg |-> c,
              done |-> FALSE, out |-> AcceptNull] :
               t \in Texts(NumberChars, MaxNumLen), c \in NumberConfigs}

\* convertAndValidateValue("query", value, name, paramConfig)
ApplyValidation ==
  /\ pf.fn = "convertAndValidateValue" /\ ~pf.done
  /\ pf' = [pf EXCEPT !.done = TRUE, !.out = convertAndValidateValue(pf.value, pf.cfg)]
  /\ UNCHANGED <<dbType, inUse, req>>

SpecNumber == InitNumber /\ [][ApplyValidation]_vars

\* the digits written after the decimal point of a number literal
FractionDigits(t) ==
  IF \E i \in 1..Len(t) : t[i] = "."
    THEN SubSeq(t, (CHOOSE i \in 1..Len(t) : t[i] = ".") + 1, Len(t))
    ELSE <<>>

\* what the constraints of a descriptor forbid for the number written as t
Forbidden(t, cfg) ==
  \/ cfg.precision = 0 /\ \E i \in 1..Len(FractionDigits(t)) : FractionDigits(t)[i] # "0"
  \/ cfg.precision > 0 /\ Len(FractionDigits(t)) > cfg.precision
  \/ cfg.hasMin /\ parseFloat(t) < cfg.minimum * Pow10(MaxNumLen)
  \/ cfg.hasMax /\ parseFloat(t) > cfg.maximum * Pow10(MaxNumLen)

\* C17: a well-formed numeric value is rejected exactly when it is not integral
\* under precision 0, has more than p decimals under precision p > 0, or lies
\* below the minimum or above the maximum; otherwise it is accepted.
C17_NumberConstraints ==
  (pf.fn = "convertAndValidateValue" /\ pf.done /\ IsNumberLiteral(Trim(pf.value.s)))
    => (pf.out.ok <=> ~Forbidden(Trim(pf.value.s), pf.cfg))

\* what the code does: the same holds of every value without surrounding blanks
NumberConstraintsOnTrimmed ==
  (pf.fn = "convertAndValidateValue" /\ pf.done /\ IsNumberLiteral(pf.value.s))
    => (pf.out.ok <=> ~Forbidden(pf.value.s, pf.cfg))

(* ------------------- bind sources and bind sets alone ------------------ *)

\* a name the statement does not read
NotRead == [ok |-> TRUE, reason |-> "not read", val |-> Undef, isNull |-> FALSE]

\* validatedProcParams / validatedQueryParams: what each name is bound to
BindsOf(checks) ==
  [n \in ParamNames |->
     IF \E i \in 1..Len(checks) : checks[i].id[3] = n
       THEN checks[CHOOSE i \in 1..Len(checks) : checks[i].id[3] = n].res
       ELSE NotRead]

StringParam(required) == [NoConfig EXCEPT !.declared = TRUE, !.required = required]

\* the statement text of the endpoints examined: one {p} and one :q placeholder
BindTexts == {<<"id", "st">>, <<"id", "appUser">>, <<"appUser", "st">>}

\* endpoints of every shape over those texts, the parameters required or not
BindEndpoints ==
  {[method |-> m, url |-> <<Lit(Api), Lit(<<"b">>), Brace(t[1])>>,
    requireToken |-> tk, jsonSchema |-> FALSE,
    sqlProcedure |-> IF shape \in {"procedure", "both"}
                       THEN Sql(<<Brace(t[1]), Colon(t[2])>>) ELSE NoSql,
    sqlQuery |-> IF shape \in {"query", "both"}
                   THEN Sql(<<Brace(t[1]), Colon(t[2])>>) ELSE NoSql,
    pathParams |-> [n \in {t[1]} |-> StringParam(rp)],
    queryParams |-> [n \in {t[2]} |-> StringParam(rq)]] :
     m \in Methods, t \in BindTexts, tk \in BOOLEAN,
     shape \in {"procedure", "query", "both"}, rp \in BOOLEAN, rq \in BOOLEAN}

\* the captures of the URL: the trailing segment given or not, no other group
PathValues == {Undef, Str(<<"9">>)}

InitBind ==
  /\ Idle
  /\ pf \in {[fn |-> "bind", ep |-> e, pathParams |-> pp, query |-> q, body |-> b,
              userId |-> SessionUser["j1"], done |-> FALSE,
              procSrc |-> NoGroups, querySrc |-> NoGroups,
              procBinds |-> [n \in ParamNames |-> NotRead],
              queryBinds |-> [n \in ParamNames |-> NotRead]] :
               e \in BindEndpoints,
               pp \in Sources({"id"}, PathValues) \cup Sources({"appUser"}, PathValues),
               q \in Sources({"st", "appUser"}, QueryValues),
               b \in Sources({"st", "appUser"}, BodyValues)}
  /\ pf.pathParams \in Sources({pf.ep.url[3].n}, PathValues)
  /\ pf.query \in Sources(NamesRead(pf.ep), QueryValues)
  /\ pf.body \in Bodies(pf.ep.method, NamesRead(pf.ep))

\* lines 1003-1117 of the handler: both bind sources and both bind sets
BuildBinds ==
  /\ pf.fn = "bind" /\ ~pf.done
  /\ LET ep == pf.ep
         in == Authorized(ep, ep.method, pf.query, pf.body, pf.userId)
         procSrc == procBindSource(ep.method, pf.pathParams, in.query, in.body)
         querySrc == queryBindSource(ep.method, pf.pathParams, in.query, in.body)
     IN pf' = [pf EXCEPT
                 !.done = TRUE,
                 !.procSrc = IF hasProcedure(ep) THEN procSrc ELSE NoGroups,
                 !.querySrc = IF hasQuery(ep) THEN querySrc ELSE NoGroups,
                 !.procBinds = IF hasProcedure(ep) THEN BindsOf(ProcChecks(ep, procSrc))
                               ELSE @,
                 !.queryBinds = IF hasQuery(ep) THEN BindsOf(QueryChecks(ep, querySrc))
                                ELSE @]
  /\ UNCHANGED <<dbType, inUse, req>>

SpecBind == InitBind /\ [][BuildBinds]_vars

BindDone == pf.fn = "bind" /\ pf.done

\* a value the client wrote in the query string and nowhere else
OnlyInQueryString(n) == pf.query[n].d /\ ~pf.body[n].d /\ ~pf.pathParams[n].d

\* C11: for a non-GET request a parameter supplied only in the query string
\* is bound to the :name placeholder of the procedure and equally to the :name
\* placeholder of the query.
C11_QueryStringReachesBoth ==
  BindDone /\ pf.ep.method # "GET" /\ isProcedureThenQuery(pf.ep) =>
    \A n \in Range(extractParamDetails(pf.ep.sqlQuery).queryParams) \ {"appUser"} :
      OnlyInQueryString(n) =>
        /\ pf.procBinds[n] = convertAndValidateValue(pf.query[n], FindConfig(pf.ep.queryParams, n))
        /\ pf.queryBinds[n] = pf.procBinds[n]

\* empty, blank, null or undefined
Blank(v) == ~v.d \/ Trim(v.s) = <<>>

\* what the claim gives a blank value: the error when required, else a null bind
BlankOutcome(cfg) ==
  IF cfg.declared /\ cfg.required THEN Reject("must be provided") ELSE AcceptNull

BlankHandled(sql, src, binds, ep) ==
  LET d == extractParamDetails(sql)
  IN /\ \A n \in Range(d.pathParams) :
          Blank(src[n]) => binds[n] = BlankOutcome(FindConfig(ep.pathParams, n))
     /\ \A n \in Range(d.queryParams) :
          Blank(src[n]) => binds[n] = BlankOutcome(FindConfig(ep.queryParams, n))

\* C16: for every parameter name of the procedure or query text, of the path
\* or the query class, a blank or undefined value fails with "must be
\* provided" when the parameter is required and is bound to null otherwise.
C16_BlankIsNullOrMissing ==
  BindDone =>
    /\ hasProcedure(pf.ep) => BlankHandled(pf.ep.sqlProcedure, pf.procSrc, pf.procBinds, pf.ep)
    /\ hasQuery(pf.ep) => BlankHandled(pf.ep.sqlQuery, pf.querySrc, pf.queryBinds, pf.ep)

\* what the code does: the same holds of the query text, and of the procedure
\* text except for an undefined {name} that is not required, which gets no bind
BlankInQueryOrGiven ==
  BindDone =>
    /\ hasQuery(pf.ep) => BlankHandled(pf.ep.sqlQuery, pf.querySrc, pf.queryBinds, pf.ep)
    /\ hasProcedure(pf.ep) =>
         LET d == extractParamDetails(pf.ep.sqlProcedure)
         IN /\ \A n \in Range(d.queryParams) :
                 Blank(pf.procSrc[n]) =>
                   pf.procBinds[n] = BlankOutcome(FindConfig(pf.ep.queryParams, n))
            /\ \A n \in Range(d.pathParams) :
                 Blank(pf.procSrc[n]) =>
                   pf.procBinds[n] =
                     IF ~pf.procSrc[n].d /\ ~FindConfig(pf.ep.pathParams, n).required
                       THEN Unbound
                       ELSE BlankOutcome(FindConfig(pf.ep.pathParams, n))

\* the statement reads appUser, as a {appUser} or an :appUser placeholder
ReadsAppUser(sql) ==
  "appUser" \in Range(extractParamDetails(sql).pathParams)
                 \cup Range(extractParamDetails(sql).queryParams)

\* C20: after authorization the bind source of the procedure and of the query
\* hold appUser equal to the user id of the session, for GET and for the
\* other methods; an appUser the client wrote in the path, the query string
\* or the body never replaces it.
C20_AppUserFromSession ==
  BindDone /\ pf.ep.requireToken =>
    /\ hasProcedure(pf.ep) =>
         /\ pf.procSrc["appUser"] = pf.userId
         /\ ReadsAppUser(pf.ep.sqlProcedure) => pf.procBinds["appUser"] = Accept(pf.userId)
    /\ hasQuery(pf.ep) =>
         /\ pf.querySrc["appUser"] = pf.userId
         /\ ReadsAppUser(pf.ep.sqlQuery) => pf.queryBinds["appUser"] = Accept(pf.userId)

\* a POST whose client wrote another appUser in the path, the query string and
\* the body, and both statements are bound to the user id of the session
C20_Witness ==
  /\ BindDone /\ pf.ep.requireToken /\ pf.ep.method = "POST"
  /\ isProcedureThenQuery(pf.ep)
  /\ \A src \in {pf.pathParams, pf.query, pf.body} :
       src["appUser"].d /\ src["appUser"] # pf.userId
  /\ pf.procBinds["appUser"] = Accept(pf.userId)
  /\ pf.queryBinds["appUser"] = Accept(pf.userId)

(* ------------------------ route resolution alone ----------------------- *)

\* URL patterns of registry entries: plain, with an optional trailing {id},
\* with a placeholder before it, with one name in two non-trailing places,
\* with the trailing name repeated before it, with a longer literal prefix,
\* and outside /api/
RouteUrls ==
  { <<Lit(Api), Lit(<<"r">>)>>,
    <<Lit(Api), Lit(<<"r">>), Brace("id")>>,
    <<Lit(Api), Brace("st"), Brace("id")>>,
    <<Lit(Api), Brace("id"), Brace("id"), Lit(<<"r">>)>>,
    <<Lit(Api), Brace("id"), Brace("id")>>,
    <<Lit(Api), Lit(<<"7">>), Lit(<<"7">>), Brace("st")>>,
    <<Lit(<<"x">>), Lit(<<"r">>)>> }

RouteEntries == {[method |-> m, url |-> u] : m \in Methods, u \in RouteUrls}

\* the segments of request paths; the empty one is what a doubled or a
\* trailing slash leaves
Segments == {Api, <<"r">>, <<"7">>, <<>>}

InitRoute ==
  /\ Idle
  /\ pf \in {[fn |-> "route", endpoints |-> <<e1, e2>>, method |-> m, path |-> p,
              done |-> FALSE, ep |-> 0, pathParams |-> NoGroups, status |-> 0] :
               e1 \in RouteEntries, e2 \in RouteEntries, m \in Methods,
               p \in Texts(Segments, MaxPathLen) \ {<<>>}}

\* lines 927-968 of the handler: the loop, then the 404
ResolveRoute ==
  /\ pf.fn = "route" /\ ~pf.done
  /\ LET e == ScanEndpoints(pf.endpoints, 1, pf.method, pf.path)
     IN pf' = [pf EXCEPT
                 !.done = TRUE, !.ep = e,
                 !.status = IF e = 0 THEN 404 ELSE 0,
                 !.pathParams = IF e = 0 THEN NoGroups
                                ELSE MatchUrl(pf.endpoints[e].url, pf.path).groups]
  /\ UNCHANGED <<dbType, inUse, req>>

SpecRoute == InitRoute /\ [][ResolveRoute]_vars

RouteDone == pf.fn = "route" /\ pf.done

\* the closed form used by the server specification is what the loop computes
RouteAgreement ==
  RouteDone => pf.ep = FindEndpoint(pf.endpoints, pf.method, pf.path)

\* the registry entries that satisfy the three conditions for the request
Hits == {i \in 1..Len(pf.endpoints) : Candidate(pf.endpoints, i, pf.method, pf.path)}

\* C12: the endpoint chosen is the lowest-index entry whose method equals the
\* request's, whose url starts with /api/ and whose matcher accepts the path;
\* a later entry that also matches is never chosen, and the answer is 404
\* exactly when no entry satisfies the three conditions.
C12_FirstMatch ==
  RouteDone =>
    /\ (pf.status = 404) <=> (Hits = {})
    /\ Hits = {} => pf.ep = 0
    /\ Hits # {} => pf.ep \in Hits /\ \A j \in Hits : pf.ep <= j

\* two different entries accept the request and the first one is chosen
C12_Witness ==
  /\ RouteDone /\ Hits = {1, 2}
  /\ pf.endpoints[1].url # pf.endpoints[2].url
  /\ pf.ep = 1 /\ pf.status # 404

\* a pattern ending in /{x} whose placeholder names differ from one another
TrailingTemplate(url) ==
  /\ url # <<>> /\ url[Len(url)].k = "brace"
  /\ \A i, j \in 1..Len(url) :
       url[i].k = "brace" /\ url[j].k = "brace" /\ url[i].n = url[j].n => i = j

\* the path without the one trailing slash it may end with
Stripped(path) ==
  IF path # <<>> /\ path[Len(path)] = <<>> THEN SubSeq(path, 1, Len(path) - 1) ELSE path

\* p gives every segment of the pattern but perhaps the last one segment, not
\* empty, equal to the literal where the pattern has one, and nothing more
Fits(url, p) ==
  /\ Len(p) \in {Len(url) - 1, Len(url)}
  /\ \A i \in 1..Len(p) : p[i] # <<>> /\ (url[i].k = "lit" => p[i] = url[i].n)

InvalidTemplate(url) ==
  \E i, j \in 1..(Len(url) - 1) :
    i # j /\ url[i].k = "brace" /\ url[j].k = "brace" /\ url[i].n = url[j].n

\* C14: an endpoint whose pattern compiles to an invalid regular expression
\* never matches: resolution skips it, goes on with the following entries and
\* answers no 500 because of it.
C14_InvalidTemplateSkipped ==
  RouteDone =>
    \A i \in 1..Len(pf.endpoints) :
      InvalidTemplate(pf.endpoints[i].url) =>
        /\ pf.ep # i
        /\ pf.status \in {0, 404}
        /\ \A j \in (i + 1)..Len(pf.endpoints) :
             j \in Hits /\ (\A h \in Hits : j <= h) => pf.ep = j

\* the first entry has an invalid pattern, the request has its method and the
\* segments the pattern asks for, and the second entry is the one chosen
C14_Witness ==
  /\ RouteDone
  /\ InvalidTemplate(pf.endpoints[1].url)
  /\ pf.endpoints[1].method = pf.method
  /\ pf.path = <<Api, <<"7">>, <<"7">>, <<"r">>>>
  /\ pf.ep = 2

(* ---------------------- parameter extraction alone --------------------- *)

ExtractNames == {"a", "b"}

\* the placeholders a statement is written with
ExtractTokens ==
  {[k |-> kind, n |-> n] : kind \in {"brace", "colon", "at", "dollar"}, n \in ExtractNames}

NoDetails == [pathParams |-> <<>>, queryParams |-> <<>>, outputParams |-> <<>>]

InitExtract ==
  /\ Idle
  /\ pf \in {[fn |-> "extractParamDetails", sql |-> Sql(t), done |-> FALSE,
              out |-> NoDetails] : t \in Texts(ExtractTokens, MaxSqlLen)}

\* extractParamDetails(sql)
ApplyExtract ==
  /\ pf.fn = "extractParamDetails" /\ ~pf.done
  /\ pf' = [pf EXCEPT !.done = TRUE, !.out = extractParamDetails(pf.sql)]
  /\ UNCHANGED <<dbType, inUse, req>>

SpecExtract == InitExtract /\ [][ApplyExtract]_vars

\* the name is written with the notation somewhere in the statement
Written(kind, n) == \E i \in 1..Len(pf.sql.toks) : pf.sql.toks[i] = [k |-> kind, n |-> n]

\* where the name is first written with the notation
FirstWritten(kind, n) ==
  CHOOSE i \in 1..Len(pf.sql.toks) :
    /\ pf.sql.toks[i] = [k |-> kind, n |-> n]
    /\ \A j \in 1..(i - 1) : pf.sql.toks[j] # [k |-> kind, n |-> n]

\* no name twice, every name written with the notation, in first-seen order
InOrder(list, kind) ==
  /\ \A i, j \in 1..Len(list) : list[i] = list[j] => i = j
  /\ \A i \in 1..Len(list) : Written(kind, list[i])
  /\ \A i, j \in 1..Len(list) :
       i < j => FirstWritten(kind, list[i]) < FirstWritten(kind, list[j])

\* C15: pathParams, queryParams and outputParams are pairwise disjoint, free
\* of duplicates and in first-seen order, with precedence path > query >
\* output: a name written {n} is only in pathParams even if it is also written
\* :n or @n, and a name written :n and @n is only in queryParams.
C15_DisjointOrdered ==
  (pf.fn = "extractParamDetails" /\ pf.done) =>
    LET d == pf.out
    IN /\ Range(d.pathParams) \cap Range(d.queryParams) = {}
       /\ Range(d.pathParams) \cap Range(d.outputParams) = {}
       /\ Range(d.queryParams) \cap Range(d.outputParams) = {}
       /\ InOrder(d.pathParams, "brace")
       /\ InOrder(d.queryParams, "colon")
       /\ InOrder(d.outputParams, "at")
       /\ \A n \in ExtractNames :
            /\ Written("brace", n) => n \in Range(d.pathParams)
            /\ Written("colon", n) /\ ~Written("brace", n) => n \in Range(d.queryParams)
            /\ (Written("at", n) /\ ~Written("colon", n) /\ ~Written("brace", n))
                 => n \in Range(d.outputParams)

\* "@a :a {b} :b" gives pathParams [b], queryParams [a] and no output
C15_Witness ==
  /\ pf.fn = "extractParamDetails" /\ pf.done
  /\ pf.sql.toks = <<At("a"), Colon("a"), Brace("b"), Colon("b")>>
  /\ pf.out = [pathParams |-> <<"b">>, queryParams |-> <<"a">>, outputParams |-> <<>>]

(* ------------------- output substitution alone ------------------------ *)

\* one character of SQL text or of a value
Ch(c) == [k |-> "ch", n |-> c]

\* \w: the characters in use that are letters, digits or _
IsWord(atom) == atom.k = "ch" /\ atom.n \in {"4", "2", "null"}

Quote == Ch("'")

\* an entry of outBinds: the key, typeof value === 'string', and String(value)
OutBind(key, isString, text) == [key |-> key, isString |-> isString, text |-> text]

RECURSIVE GetSubstitution(_, _, _)
\* the replacement text of String.prototype.replace for the match at position
\* i of text: $$ is $, $& is the match and $ before a quote is the text after
\* the match (the pattern has no group, and no value holds a backquote)
GetSubstitution(repl, text, i) ==
  IF repl = <<>> THEN <<>>
  ELSE IF repl[1] = Ch("$") /\ Len(repl) >= 2 /\ repl[2] \in {Ch("$"), Ch("&"), Quote}
    THEN (CASE repl[2] = Ch("$") -> <<Ch("$")>>
            [] repl[2] = Ch("&") -> <<text[i]>>
            [] OTHER -> SubSeq(text, i + 1, Len(text)))
         \o GetSubstitution(SubSeq(repl, 3, Len(repl)), text, i)
  ELSE <<repl[1]>> \o GetSubstitution(Tail(repl), text, i)

\* new RegExp('@' + key + '\\b', 'g') matches at position i
MatchesAt(text, key, i) ==
  text[i] = At(key) /\ (i = Len(text) \/ ~IsWord(text[i + 1]))

RECURSIVE Flatten(_)
Flatten(parts) == IF parts = <<>> THEN <<>> ELSE Head(parts) \o Flatten(Tail(parts))

\* text.replace(paramRegex, repl)
ReplaceAll(text, key, repl) ==
  Flatten([i \in 1..Len(text) |->
             IF MatchesAt(text, key, i) THEN GetSubstitution(repl, text, i)
             ELSE <<text[i]>>])

\* every value wrapped in quotes unless its text is a number
Replacement_byContent(b) ==
  IF b.isString /\ ~IsNumberLiteral([i \in 1..Len(b.text) |-> b.text[i].n])
    THEN <<Quote>> \o b.text \o <<Quote>> ELSE b.text

\* typeof value === 'string' ? `'${value}'` : value
Replacement(b) == IF b.isString THEN <<Quote>> \o b.text \o <<Quote>> ELSE b.text

RECURSIVE SubstituteOutputs(_, _)
\* for (const [key, value] of Object.entries(outBinds)) sql = sql.replace(...)
SubstituteOutputs(sql, outBinds) ==
  IF outBinds = <<>> THEN sql
  ELSE SubstituteOutputs(ReplaceAll(sql, Head(outBinds).key, Replacement(Head(outBinds))),
                         Tail(outBinds))

\* the text of the trailing query that is executed: one pass on Oracle, the
\* same pass a second time in the MySQL branch
FinalSql(engine, sql, outBinds) ==
  IF engine = "mysql"
    THEN SubstituteOutputs(SubstituteOutputs(sql, outBinds), outBinds)
    ELSE SubstituteOutputs(sql, outBinds)

\* what a string output is made of: digits, a dollar sign, the text @o2
ValueAtoms == {Ch("4"), Ch("2"), Ch("$"), At("o2")}

\* the values of output o1: any string, the number 42, or null
O1Values ==
  {OutBind("o1", TRUE, t) : t \in Texts(ValueAtoms, MaxValueLen)}
    \cup {OutBind("o1", FALSE, <<Ch("4"), Ch("2")>>), OutBind("o1", FALSE, <<Ch("null")>>)}

\* the values of output o2: the string "4" or the number 4
O2Values == {OutBind("o2", TRUE, <<Ch("4")>>), OutBind("o2", FALSE, <<Ch("4")>>)}

\* procedureResult.outBinds, its entries in the order of the procedure text
OutBindSets ==
  {<<>>} \cup {<<a>> : a \in O1Values} \cup {<<b>> : b \in O2Values}
         \cup {<<a, b>> : a \in O1Values, b \in O2Values}

QueryAtoms == {Ch(","), At("o1"), At("o2")}

\* the trailing queries: no placeholder is written right against the next one
Queries ==
  {q \in Texts(QueryAtoms, MaxQueryLen) :
     \A i \in 1..(Len(q) - 1) : ~(q[i].k = "at" /\ q[i + 1].k = "at")}

InitSubst ==
  /\ dbType \in Engines /\ inUse = 0 /\ req = [r \in Reqs |-> InitReq]
  /\ pf \in {[fn |-> "substitute", sql |-> q, outBinds |-> ob, done |-> FALSE,
              final |-> <<>>] :
               q \in Queries, ob \in OutBindSets}

\* lines 1141-1163 and 1227-1247 of the handler
SubstituteQuery ==
  /\ pf.fn = "substitute" /\ ~pf.done
  /\ pf' = [pf EXCEPT !.done = TRUE, !.final = FinalSql(dbType, pf.sql, pf.outBinds)]
  /\ UNCHANGED <<dbType, inUse, req>>

SpecSubst == InitSubst /\ [][SubstituteQuery]_vars

SubstDone == pf.fn = "substitute" /\ pf.done

Returned(key) == \E i \in 1..Len(pf.outBinds) : pf.outBinds[i].key = key

ValueOf(key) == pf.outBinds[CHOOSE i \in 1..Len(pf.outBinds) : pf.outBinds[i].key = key]

ReturnedKeys == {pf.outBinds[i].key : i \in 1..Len(pf.outBinds)}

\* the query with each @name of a returned output replaced by the text given
\* for that name
Replaced(sql, texts) ==
  Flatten([i \in 1..Len(sql) |->
             IF sql[i].k = "at" /\ Returned(sql[i].n) THEN texts[sql[i].n]
             ELSE <<sql[i]>>])

QuotedIfString(b) == IF b.isString THEN <<Quote>> \o b.text \o <<Quote>> ELSE b.text

\* every returned value in single quotes when a string, verbatim when not
ByType == [k \in ReturnedKeys |-> QuotedIfString(ValueOf(k))]

\* C18: every @name of the trailing query whose name is an output returned
\* by the procedure is replaced before the query runs, by the value in single
\* quotes when it is a string and by the value verbatim when it is not, on
\* both engines.
C18_OutputsSubstituted ==
  SubstDone => pf.final = Replaced(pf.sql, ByType)

\* a string value free of $ and @
Plain(b) == \A i \in 1..Len(b.text) : b.text[i] \in {Ch("4"), Ch("2"), Ch("null")}

\* what the code does: the same holds when no returned string holds $ or @
SubstitutedWhenPlain ==
  (SubstDone /\ \A i \in 1..Len(pf.outBinds) : Plain(pf.outBinds[i]))
    => pf.final = Replaced(pf.sql, ByType)

FortyTwo == <<Ch("4"), Ch("2")>>

\* quotes kept for a string unless what it holds is a number
QuotedUnlessNumeric(b) ==
  IF b.isString /\ ~IsNumberLiteral([i \in 1..Len(b.text) |-> b.text[i].n])
    THEN <<Quote>> \o b.text \o <<Quote>> ELSE b.text

\* the procedure returned o1 with the given type and the text 42, and the
\* trailing query reads @o1
ReturnsFortyTwo(isString) ==
  /\ SubstDone /\ Returned("o1")
  /\ ValueOf("o1") = OutBind("o1", isString, FortyTwo)
  /\ \E i \in 1..Len(pf.sql) : pf.sql[i] = At("o1")

\* C19: when the procedure returns the output "42" and the trailing query
\* holds its @name, the query that is executed holds 42 without quotes,
\* numeric content not being quote-wrapped.
C19_NumericContentUnquoted ==
  ReturnsFortyTwo(TRUE) =>
    pf.final = Replaced(pf.sql, [k \in ReturnedKeys |-> QuotedUnlessNumeric(ValueOf(k))])

\* C19 as the code has it: the string "42" is substituted as '42', in single
\* quotes; 42 stands without quotes only when the value returned is the number.
C19_QuotedByType ==
  /\ ReturnsFortyTwo(TRUE) =>
       pf.final = Replaced(pf.sql, [ByType EXCEPT !["o1"] = <<Quote>> \o FortyTwo \o <<Quote>>])
  /\ ReturnsFortyTwo(FALSE) =>
       pf.final = Replaced(pf.sql, [ByType EXCEPT !["o1"] = FortyTwo])

\* the query "@o1" run as '42' after the procedure returned the string "42"
C19_Witness ==
  /\ ReturnsFortyTwo(TRUE)
  /\ pf.sql = <<At("o1")>>
  /\ pf.final = <<Quote, Ch("4"), Ch("2"), Quote>>

(* --------------------- authorization on both engines ------------------ *)

\* validateToken returned for request r, whose endpoint has requireToken, and no
\* statement of validateToken failed in the engine
AuthSettled(r) ==
  /\ req[r].ep # 0 /\ Ep(r).requireToken
  /\ req[r].authPc = "end"
  /\ req[r].resp.error \notin EngineErrors

\* C21: a correctly signed, unexpired token whose kid is in the key store and
\* whose jti has a session row is authorized, without a 401, on Oracle and on
\* MySQL alike
C21_GoodTokenAuthorized ==
  \A r \in Reqs :
    (AuthSettled(r) /\ TokenGood(req[r].tok)) =>
      /\ req[r].authOK
      /\ req[r].resp.status # 401

\* the same on the Oracle engine alone
GoodTokenAuthorizedOnOracle ==
  dbType = "oracle" => C21_GoodTokenAuthorized

ExpiredToken == [ValidToken EXCEPT !.expired = TRUE]

BadSignatureToken == [ValidToken EXCEPT !.sigOK = FALSE]

\* C22: an expired but otherwise valid token is answered 401 with the reason
\* 'Token has expired', which is not the reason of a signature mismatch
C22_ExpiredReasonDistinct ==
  \A r \in Reqs :
    (AuthSettled(r) /\ req[r].tok = ExpiredToken) =>
      /\ req[r].resp.status = 401
      /\ req[r].resp.error = "Token has expired"
      /\ \A q \in Reqs :
           (AuthSettled(q) /\ req[q].tok = BadSignatureToken) =>
             req[q].resp.error # req[r].resp.error

\* the same on the Oracle engine alone
ExpiredReasonOnOracle ==
  dbType = "oracle" => C22_ExpiredReasonDistinct

(* --------------------------- status codes ----------------------------- *)

\* a statement of the endpoint, or a step of its transaction, failed in the engine
ExecutionFailed(r) == req[r].procSt = "failed" \/ req[r].qSt = "failed"

\* the taxonomy of the handler's responses for request r
StatusTaxonomy(r) ==
  /\ ExecutionFailed(r) =>
       /\ req[r].resp.status = 500
       /\ req[r].resp.error \in EngineErrors
       /\ req[r].err # "" => req[r].resp.error = req[r].err
  /\ req[r].resp.status = 400 => req[r].failing # {}

\* C23: a failed execution of the procedure or of the query is answered 500 with
\* the engine's message, whatever its text, and 400 is answered only after a
\* payload or parameter validation failure
C23_StatusTaxonomy ==
  \A r \in Reqs : req[r].pc = "done" => StatusTaxonomy(r)

\* the taxonomy for engine messages that hold none of the words the catch block
\* looks for
TaxonomyForOtherMessages ==
  \A r \in Reqs :
    (req[r].pc = "done" /\ ~(req[r].resp.error \in EngineErrors
                              /\ IsValidationMessage(req[r].resp.error))) =>
      StatusTaxonomy(r)

(* ------------------ the registry file and requests in flight ----------- *)

\* an entry of endpoints.json: its route, its requireToken flag and its statement
Entry(url, requireToken, sql) ==
  [method |-> "GET", url |-> url, requireToken |-> requireToken, sql |-> sql]

NoEntry == [method |-> "", url |-> <<>>, requireToken |-> FALSE, sql |-> ""]

\* the contents the authoring tool saves: one route with a first statement,
\* the same route with another statement and a token, the route moved behind
\* another entry, and the empty list
Versions ==
  { <<Entry(<<Lit(Api), Lit(<<"r">>)>>, FALSE, "q1")>>,
    <<Entry(<<Lit(Api), Lit(<<"r">>)>>, TRUE, "q2")>>,
    <<Entry(<<Lit(Api), Lit(<<"x">>)>>, FALSE, "q3"),
      Entry(<<Lit(Api), Lit(<<"r">>), Brace("id")>>, TRUE, "q4")>>,
    <<>> }

RegistryPaths == {<<Api, <<"r">>>>, <<Api, <<"x">>>>}

\* a request before the handler runs; start is the content of the file at the
\* moment the handler was entered
NoRequest ==
  [pc |-> "idle", path |-> <<>>, start |-> <<>>, endpoint |-> NoEntry,
   status |-> 0, ran |-> ""]

InitRegistry ==
  /\ Idle
  /\ pf \in {[fn |-> "registry", file |-> v, h |-> [r \in Reqs |-> NoRequest]] :
               v \in Versions}

\* app.post('/api/endpoints'): fs.writeFileSync of the whole list
SaveEndpoints ==
  /\ pf.fn = "registry"
  /\ \E v \in Versions : pf' = [pf EXCEPT !.file = v]
  /\ UNCHANGED <<dbType, inUse, req>>

\* the handler from its entry to its first await: readFileSync, JSON.parse, the
\* route loop, the 404, and const endpoint = matchedEndpoint
StartRequest(r) ==
  /\ pf.fn = "registry" /\ pf.h[r].pc = "idle"
  /\ \E path \in RegistryPaths :
       LET matched(endpoints, e) ==
             pf' = [pf EXCEPT !.h[r] =
                      [pc |-> IF e = 0 THEN "done" ELSE "await_auth",
                       path |-> path, start |-> pf.file,
                       endpoint |-> IF e = 0 THEN NoEntry ELSE endpoints[e],
                       status |-> IF e = 0 THEN 404 ELSE 0, ran |-> ""]]
           read(endpoints) == matched(endpoints, FindEndpoint(endpoints, "GET", path))
       IN read(pf.file)
  /\ UNCHANGED <<dbType, inUse, req>>

\* validateToken(req, res, resolve, endpoint) and its awaits
AwaitToken(r) ==
  /\ pf.fn = "registry" /\ pf.h[r].pc = "await_auth"
  /\ \/ pf' = [pf EXCEPT !.h[r].pc = "execute"]
     \/ /\ pf.h[r].endpoint.requireToken
        /\ pf' = [pf EXCEPT !.h[r].pc = "done", !.h[r].status = 401]
  /\ UNCHANGED <<dbType, inUse, req>>

\* an endpoint looked up again in the file when the statement is prepared
endpointAfterAwait_reread(snapshot, file, path) ==
  IF FindEndpoint(file, "GET", path) = 0 THEN NoEntry
  ELSE file[FindEndpoint(file, "GET", path)]

\* the endpoint the handler consults after an await: its own const binding
endpointAfterAwait(snapshot, file, path) == snapshot

\* validation and execution of endpoint.sqlQuery, then res.json
ExecuteRequest(r) ==
  /\ pf.fn = "registry" /\ pf.h[r].pc = "execute"
  /\ pf' = [pf EXCEPT
              !.h[r].pc = "done", !.h[r].status = 200,
              !.h[r].ran = endpointAfterAwait(pf.h[r].endpoint, pf.file, pf.h[r].path).sql]
  /\ UNCHANGED <<dbType, inUse, req>>

NextRegistry ==
  \/ SaveEndpoints
  \/ \E r \in Reqs : StartRequest(r)
  \/ \E r \in Reqs : AwaitToken(r)
  \/ \E r \in Reqs : ExecuteRequest(r)

SpecRegistry == InitRegistry /\ [][NextRegistry]_vars

\* the entry of a registry content that answers a path, NoEntry for none
Resolved(content, path) ==
  LET hits == {i \in 1..Len(content) :
                 content[i].url = [j \in 1..Len(path) |-> Lit(path[j])]
                 \/ /\ Len(content[i].url) = Len(path) + 1
                    /\ content[i].url[Len(path) + 1].k = "brace"
                    /\ \A j \in 1..Len(path) : content[i].url[j] = Lit(path[j])}
  IN IF hits = {} THEN NoEntry ELSE content[CHOOSE i \in hits : \A j \in hits : i <= j]

\* C24: a request is resolved against the content the file had when the handler
\* was entered, whatever earlier requests read, and a save made while the
\* request is in flight changes neither the endpoint it holds nor the
\* statement it runs
C24_RegistryReadPerRequest ==
  pf.fn = "registry" =>
    \A r \in Reqs :
      pf.h[r].pc # "idle" =>
        /\ pf.h[r].endpoint = Resolved(pf.h[r].start, pf.h[r].path)
        /\ (pf.h[r].status = 404) <=> (Resolved(pf.h[r].start, pf.h[r].path) = NoEntry)
        /\ pf.h[r].status = 200 => pf.h[r].ran = Resolved(pf.h[r].start, pf.h[r].path).sql

\* one request ran the first statement; the list was saved while the other was
\* awaiting its authorization, and the other one, entered after an earlier save,
\* ran the statement of the content it had read, not that of the file
C24_Witness ==
  /\ pf.fn = "registry"
  /\ \E r1, r2 \in Reqs :
       /\ pf.h[r1].status = 200 /\ pf.h[r1].ran = "q1"
       /\ pf.h[r2].status = 200 /\ pf.h[r2].ran = "q2"
       /\ pf.h[r1].path = pf.h[r2].path
       /\ pf.h[r2].start # pf.file
       /\ Resolved(pf.file, pf.h[r2].path).sql = "q4"

(* --------------------------- the dollar bind --------------------------- *)

\* longest value of a bind source that is serialized
MaxJsonLen == 2

\* the double quote and the backslash as characters of a text
JsonDQ == "DQ"

JsonBS == "BS"

\* the characters of the values: a letter, a single quote, and the two
\* characters JSON escapes
JsonChars == {"a", "'", JsonDQ, JsonBS}

\* the keys of a bind source in the order the spread inserted them
JsonKeys == <<"id", "st", "appUser">>

RECURSIVE Escape(_)
\* the characters of a JSON string literal between its quotes
Escape(s) ==
  IF s = <<>> THEN <<>>
  ELSE (IF Head(s) \in {JsonDQ, JsonBS} THEN <<JsonBS, Head(s)>> ELSE <<Head(s)>>)
         \o Escape(Tail(s))

RECURSIVE Members(_, _)
\* "key":"value" of every defined property, separated by commas
Members(src, keys) ==
  IF keys = <<>> THEN <<>>
  ELSE IF ~src[Head(keys)].d THEN Members(src, Tail(keys))
  ELSE <<JsonDQ, Head(keys), JsonDQ, ":", JsonDQ>> \o Escape(src[Head(keys)].s) \o <<JsonDQ>>
         \o (IF \E i \in 2..Len(keys) : src[keys[i]].d THEN <<",">> ELSE <<>>)
         \o Members(src, Tail(keys))

\* JSON.stringify(procBindSource): an undefined property is left out
JSONstringify(src) == <<"{">> \o Members(src, JsonKeys) \o <<"}">>

RECURSIVE SanitizeQuotes(_)
\* paramValue.replace(/'/g, "''")
SanitizeQuotes(text) ==
  IF text = <<>> THEN <<>>
  ELSE (IF Head(text) = "'" THEN <<"'", "'">> ELSE <<Head(text)>>)
         \o SanitizeQuotes(Tail(text))

NotJson == [ok |-> FALSE, val |-> NoGroups]

RECURSIVE ReadString(_, _, _)
\* a string literal read from the character after its opening quote
ReadString(text, j, acc) ==
  IF j > Len(text) THEN [ok |-> FALSE, s |-> <<>>, next |-> j]
  ELSE IF text[j] = JsonDQ THEN [ok |-> TRUE, s |-> acc, next |-> j + 1]
  ELSE IF text[j] = JsonBS
    THEN IF j + 1 > Len(text) THEN [ok |-> FALSE, s |-> <<>>, next |-> j]
         ELSE ReadString(text, j + 2, Append(acc, text[j + 1]))
  ELSE ReadString(text, j + 1, Append(acc, text[j]))

RECURSIVE ParseMembers(_, _, _)
\* the members of an object read from position i, where a key begins
ParseMembers(text, i, acc) ==
  LET value(k, v) ==
        IF ~v.ok \/ v.next > Len(text) THEN NotJson
        ELSE IF text[v.next] = "}"
          THEN IF v.next = Len(text)
                 THEN [ok |-> TRUE, val |-> [acc EXCEPT ![k] = Str(v.s)]]
                 ELSE NotJson
        ELSE IF text[v.next] = ","
          THEN ParseMembers(text, v.next + 1, [acc EXCEPT ![k] = Str(v.s)])
        ELSE NotJson
      key(k) ==
        IF ~k.ok \/ Len(k.s) # 1 \/ k.next + 1 > Len(text) THEN NotJson
        ELSE IF k.s[1] \notin ParamNames \/ text[k.next] # ":" \/ text[k.next + 1] # JsonDQ
          THEN NotJson
        ELSE value(k.s[1], ReadString(text, k.next + 2, <<>>))
  IN IF i > Len(text) \/ text[i] # JsonDQ THEN NotJson
     ELSE key(ReadString(text, i + 1, <<>>))

\* JSON.parse(text) of an object of strings
JSONparse(text) ==
  IF text = <<"{", "}">> THEN [ok |-> TRUE, val |-> NoGroups]
  ELSE IF Len(text) < 2 \/ text[1] # "{" THEN NotJson
  ELSE ParseMembers(text, 2, NoGroups)

\* sql.match(/\$(\w+)/): the name of the first $name, "" for null
extractDollarParam(toks) ==
  IF \E i \in 1..Len(toks) : toks[i].k = "dollar"
    THEN toks[CHOOSE i \in 1..Len(toks) :
                /\ toks[i].k = "dollar"
                /\ \A j \in 1..(i - 1) : toks[j].k # "dollar"].n
    ELSE ""

\* executionProcedureBody.replace(new RegExp(`\\$${dollarParam}\\b`, 'g'), `:${dollarParam}`)
RewriteDollar(toks, dollarParam) ==
  [i \in 1..Len(toks) |-> IF toks[i] = Dollar(dollarParam) THEN Colon(dollarParam) ELSE toks[i]]

NoBind == [kind |-> "none", text |-> <<>>]

\* validatedProcParams after the dollar block and the two forEach loops: the
\* loops run after the block and assign over it
DollarBinds(toks, src) ==
  LET binds(dollarParam, checked) ==
        [n \in ParamNames |->
           IF checked[n].reason # "not read" /\ checked[n] # Unbound
             THEN [kind |-> IF checked[n].isNull THEN "null" ELSE "value",
                   text |-> checked[n].val.s]
           ELSE IF n = dollarParam
             THEN [kind |-> "json", text |-> SanitizeQuotes(JSONstringify(src))]
           ELSE NoBind]
  IN binds(extractDollarParam(toks),
           BindsOf(ProcChecks([sqlProcedure |-> Sql(toks), pathParams |-> NoParams,
                               queryParams |-> NoParams], src)))

\* the procedure texts examined: $st alone, twice around another bind, next to
\* a second dollar name, next to :st, and a text without a dollar bind
DollarTexts ==
  { <<Dollar("st")>>,
    <<Dollar("st"), Colon("id"), Dollar("st")>>,
    <<Dollar("st"), Dollar("id")>>,
    <<Dollar("st"), Colon("st")>>,
    <<Brace("id"), Colon("st")>> }

JsonValues == {Undef} \cup {Str(t) : t \in Texts(JsonChars, MaxJsonLen)}

InitDollar ==
  /\ Idle
  /\ pf \in {[fn |-> "dollar", toks |-> t, src |-> s, done |-> FALSE,
              body |-> <<>>, binds |-> [n \in ParamNames |-> NoBind]] :
               t \in DollarTexts, s \in Sources({"id", "st"}, JsonValues)}

\* lines 1015-1071 of the handler
ApplyDollar ==
  /\ pf.fn = "dollar" /\ ~pf.done
  /\ pf' = [pf EXCEPT
              !.done = TRUE,
              !.body = IF extractDollarParam(pf.toks) # ""
                         THEN RewriteDollar(pf.toks, extractDollarParam(pf.toks))
                         ELSE pf.toks,
              !.binds = DollarBinds(pf.toks, pf.src)]
  /\ UNCHANGED <<dbType, inUse, req>>

SpecDollar == InitDollar /\ [][ApplyDollar]_vars

\* the handler processed a procedure text that holds $name
DollarDone(name) ==
  /\ pf.fn = "dollar" /\ pf.done
  /\ \E i \in 1..Len(pf.toks) : pf.toks[i].k = "dollar"
  /\ name = extractDollarParam(pf.toks)

\* name is bound to the serialized bind source, and $name became :name
DollarBound(name) ==
  /\ pf.binds[name].kind = "json"
  /\ pf.binds[name].text = JSONstringify(pf.src)
  /\ JSONparse(pf.binds[name].text) = [ok |-> TRUE, val |-> pf.src]
  /\ Len(pf.body) = Len(pf.toks)
  /\ \A i \in 1..Len(pf.toks) :
       pf.body[i] = IF pf.toks[i] = Dollar(name) THEN Colon(name) ELSE pf.toks[i]

\* C25: with $name in the procedure text, name is bound to one string that is
\* the JSON serialization of the merged bind source, which parses back to the
\* bind source also when a value holds a single quote, and every $name of the
\* executed body reads :name
C25_DollarBindIsJson ==
  \A name \in ParamNames : DollarDone(name) => DollarBound(name)

HasSingleQuote(src) ==
  \E n \in ParamNames : \E i \in 1..Len(src[n].s) : src[n].s[i] = "'"

\* the claim for bind sources without a single quote and texts that do not
\* also read :name
DollarBindWithoutQuote ==
  \A name \in ParamNames :
    (DollarDone(name) /\ ~HasSingleQuote(pf.src)
       /\ \A i \in 1..Len(pf.toks) : pf.toks[i] # Colon(name)) =>
      DollarBound(name)

\* serialization and parsing are inverse on every bind source
JsonRoundTrip ==
  pf.fn = "dollar" => JSONparse(JSONstringify(pf.src)) = [ok |-> TRUE, val |-> pf.src]

(* -------------------------- endpoint names ---------------------------- *)

\* the most endpoints the authoring tool holds
MaxEndpoints == 3

\* a name is its words, one space between them; the words written in the form
FormNames == {<<"a">>, <<"A">>, <<"b">>, <<"a", "copy">>, <<"a", "COPY">>}

\* word.toLowerCase()
LowerWord(w) == IF w = "A" THEN "a" ELSE IF w = "COPY" THEN "copy" ELSE w

\* name.toLowerCase()
toLowerCase(name) == [i \in 1..Len(name) |-> LowerWord(name[i])]

\* the authoring tool's guard before addEndpoint and updateEndpoint
isNameUnique(name, effectiveId, endpoints) ==
  ~\E i \in 1..Len(endpoints) :
     /\ toLowerCase(endpoints[i].name) = toLowerCase(name)
     /\ endpoints[i].id # effectiveId

\* originalName.match(/^(.*?)(?: copy( \d+)?)?$/)[1]
CopyBase(name) ==
  IF Len(name) >= 3 /\ name[Len(name) - 1] = "copy" /\ name[Len(name)] \in Digits
    THEN SubSeq(name, 1, Len(name) - 2)
  ELSE IF Len(name) >= 2 /\ name[Len(name)] = "copy"
    THEN SubSeq(name, 1, Len(name) - 1)
  ELSE name

RECURSIVE CopyLoop(_, _, _, _)
\* while (existingEndpoints.some(e => e.name === copyName)) { ... counter++ }
CopyLoop(baseName, copyName, counter, endpoints) ==
  IF \E i \in 1..Len(endpoints) : endpoints[i].name = copyName
    THEN CopyLoop(baseName, baseName \o <<"copy", DigitSeq[counter + 1]>>,
                  counter + 1, endpoints)
    ELSE copyName

generateCopyName(originalName, existingEndpoints) ==
  CopyLoop(CopyBase(originalName), CopyBase(originalName) \o <<"copy">>, 1, existingEndpoints)

\* `endpoint_${Date.now()}`: an id no endpoint of the list has
FreshId(endpoints) ==
  CHOOSE id \in 1..(Len(endpoints) + 1) : \A i \in 1..Len(endpoints) : endpoints[i].id # id

InitNames ==
  /\ Idle
  /\ pf = [fn |-> "names", endpoints |-> <<>>, copied |-> FALSE]

\* onSubmit of the form for a new endpoint, then addEndpoint
AddEndpoint ==
  /\ pf.fn = "names" /\ Len(pf.endpoints) < MaxEndpoints
  /\ \E name \in FormNames :
       /\ isNameUnique(name, FreshId(pf.endpoints), pf.endpoints)
       /\ pf' = [pf EXCEPT !.endpoints =
                   Append(@, [id |-> FreshId(pf.endpoints), name |-> name,
                              status |-> "active"])]
  /\ UNCHANGED <<dbType, inUse, req>>

\* onSubmit of the form for an endpoint being edited, then updateEndpoint
UpdateEndpoint ==
  /\ pf.fn = "names"
  /\ \E i \in 1..Len(pf.endpoints), name \in FormNames :
       /\ isNameUnique(name, pf.endpoints[i].id, pf.endpoints)
       /\ pf' = [pf EXCEPT !.endpoints[i].name = name]
  /\ UNCHANGED <<dbType, inUse, req>>

DuplicateEndpoint ==
  /\ pf.fn = "names" /\ Len(pf.endpoints) < MaxEndpoints
  /\ \E i \in 1..Len(pf.endpoints) :
       pf' = [pf EXCEPT
                !.copied = TRUE,
                !.endpoints =
                  Append(@, [id |-> FreshId(pf.endpoints),
                             name |-> generateCopyName(pf.endpoints[i].name, pf.endpoints),
                             status |-> pf.endpoints[i].status])]
  /\ UNCHANGED <<dbType, inUse, req>>

ToggleEndpointStatus ==
  /\ pf.fn = "names"
  /\ \E i \in 1..Len(pf.endpoints) :
       pf' = [pf EXCEPT !.endpoints[i].status =
                IF @ = "active" THEN "inactive" ELSE "active"]
  /\ UNCHANGED <<dbType, inUse, req>>

DeleteEndpoint ==
  /\ pf.fn = "names"
  /\ \E i \in 1..Len(pf.endpoints) :
       pf' = [pf EXCEPT !.endpoints =
                SubSeq(@, 1, i - 1) \o SubSeq(@, i + 1, Len(@))]
  /\ UNCHANGED <<dbType, inUse, req>>

NextNames ==
  \/ AddEndpoint
  \/ UpdateEndpoint
  \/ DuplicateEndpoint
  \/ ToggleEndpointStatus
  \/ DeleteEndpoint

SpecNames == InitNames /\ [][NextNames]_vars

\* C26: no two endpoints of the registry have names that are equal when the
\* case of their letters is ignored, after any sequence of add, update,
\* duplicate, toggle and delete
C26_NamesUniqueIgnoringCase ==
  pf.fn = "names" =>
    \A i, j \in 1..Len(pf.endpoints) :
      i # j => toLowerCase(pf.endpoints[i].name) # toLowerCase(pf.endpoints[j].name)

\* the same as long as no endpoint was duplicated
UniqueIgnoringCaseBeforeCopy ==
  (pf.fn = "names" /\ ~pf.copied) => C26_NamesUniqueIgnoringCase

\* names and ids are never equal letter for letter
NamesAndIdsDistinct ==
  pf.fn = "names" =>
    \A i, j \in 1..Len(pf.endpoints) :
      i # j => /\ pf.endpoints[i].name # pf.endpoints[j].name
               /\ pf.endpoints[i].id # pf.endpoints[j].id

(* -------------------- positional markers for MySQL --------------------- *)

\* the most pieces a procedure body is written with
MaxPieces == 3

\* the pieces of the procedure bodies examined, as their characters
ProcPieces ==
  { <<"{", "a", "}">>, <<":", "a">>, <<"{", "b", "}">>, <<":", "b">>,
    <<"?">>, <<",">>, <<":">>, <<"{", "a">>, <<"a">> }

ProcBodies == {Flatten(ps) : ps \in Texts(ProcPieces, MaxPieces)}

\* \w
WordChars == {"a", "b"}

RECURSIVE WordRun(_, _)
\* the length of the longest run of word characters that starts at i
WordRun(text, i) ==
  IF i <= Len(text) /\ text[i] \in WordChars THEN 1 + WordRun(text, i + 1) ELSE 0

\* how many characters /(\{(\w+)\}|:(\w+))/ matches at position i, 0 for no match
ParamMatchLen(text, i) ==
  LET braced(run) ==
        IF run >= 1 /\ i + run + 1 <= Len(text) /\ text[i + run + 1] = "}" THEN run + 2 ELSE 0
      colon(run) == IF run >= 1 THEN run + 1 ELSE 0
  IN IF text[i] = "{" THEN braced(WordRun(text, i + 1))
     ELSE IF text[i] = ":" THEN colon(WordRun(text, i + 1))
     ELSE 0

\* fullMatch.slice(1, -1) for {name}, fullMatch.slice(1) for :name
ParamNameAt(text, i, len) ==
  IF text[i] = "{" THEN SubSeq(text, i + 1, i + len - 2) ELSE SubSeq(text, i + 1, i + len - 1)

\* params[paramName]: undefined for a name that is no key of params
ParamValue(params, name) ==
  IF name \in DOMAIN params THEN params[name] ELSE [d |-> FALSE, v |-> ""]

RECURSIVE CollectPositions(_, _, _)
\* the while loop over allParamRegex.exec(mysqlSql) from position i on
CollectPositions(text, i, params) ==
  LET found(len) ==
        IF len = 0 THEN CollectPositions(text, i + 1, params)
        ELSE (IF ParamValue(params, ParamNameAt(text, i, len)).d
                THEN <<[start |-> i, end |-> i + len,
                        paramName |-> ParamNameAt(text, i, len),
                        value |-> ParamValue(params, ParamNameAt(text, i, len)).v]>>
                ELSE <<>>)
               \o CollectPositions(text, i + len, params)
  IN IF i > Len(text) THEN <<>> ELSE found(ParamMatchLen(text, i))

RECURSIVE SortPositions_ascending(_)
\* paramPositions.sort((a, b) => a.start - b.start)
SortPositions_ascending(ps) ==
  IF ps = <<>> THEN <<>>
  ELSE LET m == CHOOSE i \in 1..Len(ps) : \A j \in 1..Len(ps) : ps[i].start <= ps[j].start
       IN <<ps[m]>> \o SortPositions_ascending(SubSeq(ps, 1, m - 1) \o SubSeq(ps, m + 1, Len(ps)))

RECURSIVE SortPositions(_)
\* paramPositions.sort((a, b) => b.start - a.start)
SortPositions(ps) ==
  IF ps = <<>> THEN <<>>
  ELSE LET m == CHOOSE i \in 1..Len(ps) : \A j \in 1..Len(ps) : ps[i].start >= ps[j].start
       IN <<ps[m]>> \o SortPositions(SubSeq(ps, 1, m - 1) \o SubSeq(ps, m + 1, Len(ps)))

RECURSIVE ReplacePositions(_, _, _)
\* the for loop: substring(0, start) + '?' + substring(end), inParams.unshift(value)
ReplacePositions(mysqlSql, ps, inParams) ==
  IF ps = <<>> THEN [sql |-> mysqlSql, inParams |-> inParams]
  ELSE ReplacePositions(
         SubSeq(mysqlSql, 1, Head(ps).start - 1) \o <<"?">>
           \o SubSeq(mysqlSql, Head(ps).end, Len(mysqlSql)),
         Tail(ps), <<Head(ps).value>> \o inParams)

\* the rewrite of the procedure body in the MySQL branch of executeProcedure
RewriteForMysql(procedureBody, params) ==
  ReplacePositions(procedureBody, SortPositions(CollectPositions(procedureBody, 1, params)), <<>>)

\* the bind sets: a bound to a text, to null or not at all, b to a text or not at all
MysqlParams ==
  {[n \in {<<"a">>, <<"b">>} |-> IF n = <<"a">> THEN a ELSE b] :
     a \in {[d |-> FALSE, v |-> ""], [d |-> TRUE, v |-> "1"], [d |-> TRUE, v |-> "null"]},
     b \in {[d |-> FALSE, v |-> ""], [d |-> TRUE, v |-> "2"]}}

InitMarkers ==
  /\ Idle
  /\ pf \in {[fn |-> "markers", body |-> b, params |-> p, done |-> FALSE,
              sql |-> <<>>, inParams |-> <<>>] : b \in ProcBodies, p \in MysqlParams}

\* lines 164-197 (with output parameters) and 212-245 (without) of executeProcedure
ApplyMarkers ==
  /\ pf.fn = "markers" /\ ~pf.done
  /\ LET out(r) == pf' = [pf EXCEPT !.done = TRUE, !.sql = r.sql, !.inParams = r.inParams]
     IN out(RewriteForMysql(pf.body, pf.params))
  /\ UNCHANGED <<dbType, inUse, req>>

SpecMarkers == InitMarkers /\ [][ApplyMarkers]_vars

RECURSIVE LeftToRight(_, _, _)
\* the body read once from the left: every {name} and :name with a bound value
\* gives one ? and one value, every other character is copied
LeftToRight(text, i, params) ==
  LET copy == LET rest == LeftToRight(text, i + 1, params)
              IN [sql |-> <<text[i]>> \o rest.sql, values |-> rest.values]
      occurrence(len) ==
        LET rest == LeftToRight(text, i + len, params)
            bound == ParamValue(params, ParamNameAt(text, i, len))
        IN IF bound.d
             THEN [sql |-> <<"?">> \o rest.sql, values |-> <<bound.v>> \o rest.values]
             ELSE [sql |-> SubSeq(text, i, i + len - 1) \o rest.sql, values |-> rest.values]
  IN IF i > Len(text) THEN [sql |-> <<>>, values |-> <<>>]
     ELSE IF ParamMatchLen(text, i) = 0 THEN copy
     ELSE occurrence(ParamMatchLen(text, i))

Marks(text) == Cardinality({i \in 1..Len(text) : text[i] = "?"})

\* C27: the ? markers introduced are as many as the positional values, the i-th
\* value is the bound value of the i-th replaced {name} or :name from the left,
\* a repeated name giving one value per occurrence; an occurrence whose name has
\* no bound value stays in the text and gives no value, and the text outside
\* the replaced occurrences is unchanged
C27_MarkersMatchValues ==
  (pf.fn = "markers" /\ pf.done) =>
    /\ Marks(pf.sql) - Marks(pf.body) = Len(pf.inParams)
    /\ pf.sql = LeftToRight(pf.body, 1, pf.params).sql
    /\ pf.inParams = LeftToRight(pf.body, 1, pf.params).values

\* :b{a}:a with a and b bound, rewritten to ??? with the values of b, a, a
C27_Witness ==
  /\ pf.fn = "markers" /\ pf.done
  /\ pf.body = <<":", "b", "{", "a", "}", ":", "a">>
  /\ pf.sql = <<"?", "?", "?">>
  /\ pf.inParams = <<"2", "1", "1">>

(* ------------------------- the request limiter ------------------------- *)

\* RATE_LIMIT, the requests of one key per window (100 in the source)
RATE_LIMIT == 2

\* the length of the window in clock ticks (60000 ms in the source)
WindowTicks == 2

\* the last value of Date.now() examined
MaxNow == 4

\* the most requests made for one key
MaxCalls == 4

LimitKeys == {"k1", "k2"}

\* this.requestCounts.get(key) of a key never requested
NoCount == [count |-> 0, timestamp |-> 0 - 1]

\* after the constructor: apiLimits on, requestCounts empty
InitLimiter ==
  /\ Idle
  /\ pf = [fn |-> "limiter", now |-> 0, apiLimits |-> TRUE, everOff |-> FALSE,
           requestCounts |-> [k \in LimitKeys |-> NoCount],
           invoked |-> [k \in LimitKeys |-> <<>>],
           calls |-> [k \in LimitKeys |-> 0],
           last |-> [key |-> "", outcome |-> "none"]]

\* the value checkRateLimit stores for the key: a fresh window when the stored
\* one began more than a window ago, one more request in it otherwise
requestInfoAfter(stored, now) ==
  LET requestInfo == IF stored = NoCount THEN [count |-> 0, timestamp |-> now] ELSE stored
      windowStart == now - WindowTicks
  IN IF requestInfo.timestamp < windowStart
       THEN [count |-> 1, timestamp |-> now]
       ELSE [requestInfo EXCEPT !.count = @ + 1]

\* return requestInfo.count > this.RATE_LIMIT
isRateLimited(requestInfo) == requestInfo.count > RATE_LIMIT

\* handleRequest(key, requestFn): the limit check, then requestFn
HandleRequest(key) ==
  /\ pf.fn = "limiter" /\ pf.calls[key] < MaxCalls
  /\ LET info == requestInfoAfter(pf.requestCounts[key], pf.now)
         limited == pf.apiLimits /\ isRateLimited(info)
     IN pf' = [pf EXCEPT
                 !.requestCounts[key] = IF pf.apiLimits THEN info ELSE @,
                 !.invoked[key] = IF limited THEN @ ELSE Append(@, pf.now),
                 !.calls[key] = @ + 1,
                 !.last = [key |-> key,
                           outcome |-> IF limited THEN "Rate limit exceeded" ELSE "invoked"]]
  /\ UNCHANGED <<dbType, inUse, req>>

\* updateSettings(newSettings)
UpdateSettings(apiLimits) ==
  /\ pf.fn = "limiter" /\ pf.apiLimits # apiLimits
  /\ pf' = [pf EXCEPT !.apiLimits = apiLimits, !.everOff = @ \/ ~apiLimits]
  /\ UNCHANGED <<dbType, inUse, req>>

\* time passes
Tick ==
  /\ pf.fn = "limiter" /\ pf.now < MaxNow
  /\ pf' = [pf EXCEPT !.now = @ + 1]
  /\ UNCHANGED <<dbType, inUse, req>>

NextLimiter ==
  \/ \E key \in LimitKeys : HandleRequest(key)
  \/ \E apiLimits \in BOOLEAN : UpdateSettings(apiLimits)
  \/ Tick

SpecLimiter == InitLimiter /\ [][NextLimiter]_vars

\* the requests of key that reached requestFn at a time in from..to
InvokedWithin(key, from, to) ==
  Cardinality({i \in 1..Len(pf.invoked[key]) :
                 pf.invoked[key][i] >= from /\ pf.invoked[key][i] <= to})

\* C28: with apiLimits enabled, at most RATE_LIMIT requests of one key reach
\* requestFn within any interval of one window length
C28_AtMostLimitPerInterval ==
  (pf.fn = "limiter" /\ ~pf.everOff) =>
    \A key \in LimitKeys : \A t \in 0..MaxNow :
      InvokedWithin(key, t, t + WindowTicks - 1) <= RATE_LIMIT

\* what the counter does guarantee: at most RATE_LIMIT requests of one key reach
\* requestFn from the start of the key's stored window on
LimitWithinStoredWindow ==
  (pf.fn = "limiter" /\ ~pf.everOff) =>
    \A key \in LimitKeys :
      InvokedWithin(key, pf.requestCounts[key].timestamp, MaxNow) <= RATE_LIMIT

\* a request refused for the limit did not reach requestFn, and one is refused
\* exactly when the stored count of its key has passed RATE_LIMIT
RefusedExactlyOverLimit ==
  (pf.fn = "limiter" /\ ~pf.everOff /\ pf.last.outcome # "none") =>
    (pf.last.outcome = "Rate limit exceeded"
       <=> pf.requestCounts[pf.last.key].count > RATE_LIMIT)

(* ---------------------- the end of every request ----------------------- *)

\* a step of request r that waits for the engine: the event loop runs it once
\* the engine has returned or thrown
Continue(r) ==
  \/ AuthGetConnection(r)
  \/ AuthKeyLookup(r)
  \/ AuthSessionLookup(r)
  \/ AuthRelease(r)
  \/ ProcGetConnection(r)
  \/ ProcBegin(r)
  \/ ProcSetNull(r)
  \/ ProcExecute(r)
  \/ ProcFetchOut(r)
  \/ ProcCommit(r)
  \/ ProcRollback(r)
  \/ ProcRelease(r)
  \/ QueryGetConnection(r)
  \/ QueryExecute(r)
  \/ QueryRelease(r)

\* the validation is synchronous code that follows the wait on validateToken
\* in the same turn of the event loop: no request stays before it
ValidationRuns == \A r \in Reqs : []<>(req[r].pc # "validate")

\* every call to the engine returns or throws, and the event loop runs every
\* continuation that is ready
LiveSpec ==
  /\ Init /\ [][Next]_vars
  /\ WF_vars(\E r \in Reqs : Continue(r))
  /\ ValidationRuns

\* the async function of the handler has settled
Settled(r) == req[r].pc = "done"

\* validateToken has answered 401 and returned without calling next
Refused(r) ==
  /\ req[r].pc = "await_auth" /\ req[r].authPc = "end"
  /\ req[r].resp.sent = 1 /\ req[r].resp.status = 401

\* C29: every invocation of the handler eventually finishes, on every path: the
\* wait on validateToken always ends
C29_HandlerSettles ==
  \A r \in Reqs : (req[r].pc # "idle") ~> Settled(r)

\* every invocation either finishes or stays in its wait on validateToken
\* after the 401 of an authorization failure
SettlesUnlessRefused ==
  \A r \in Reqs : (req[r].pc # "idle") ~> (Settled(r) \/ Refused(r))

\* a refused request never leaves its wait
RefusedForever ==
  \A r \in Reqs : [](Refused(r) => []Refused(r))

\* C30: exactly one response is sent per request: never a second one, and a
\* request that has finished, or that validateToken has refused, has sent one
C30_ExactlyOneResponse ==
  \A r \in Reqs :
    /\ req[r].resp.sent <= 1
    /\ (req[r].pc = "done" \/ (req[r].pc = "await_auth" /\ req[r].authPc = "end")) =>
         req[r].resp.sent = 1
    /\ (req[r].resp.sent = 1 /\ req[r].pc # "done") =>
         (req[r].pc = "await_auth" /\ req[r].resp.status = 401)

\* one request refused with its 401 and another answered with success, each
\* with one response
C30_Witness ==
  \E r, s \in Reqs :
    /\ Refused(r)
    /\ req[s].pc = "done" /\ req[s].authOK
    /\ req[s].resp.sent = 1 /\ req[s].resp.success

\* every request is answered
C30_Answered ==
  \A r \in Reqs : (req[r].pc # "idle") ~> (req[r].resp.sent = 1)

\* a request that is neither finished nor refused has a continuation waiting
\* for the engine, or is about to run its validation
ContinuationsEnabled ==
  \A r \in Reqs :
    (req[r].pc \notin {"idle", "done", "await_auth", "validate"}
       \/ req[r].authPc \notin {"none", "end"}) => ENABLED Continue(r)

====
